---- MODULE Spec2Model ----
(***************************************************************************)
(* Material property data engine of Material_Library (src/main.py):        *)
(* temperature lookup (get_property_at_temp), the structural diff          *)
(* (find_changes) and the editor's checkout / commit cycle (EditorFrame).  *)
(*                                                                         *)
(* JSON values are tagged records:                                         *)
(*   null   [k |-> "null"]                                                 *)
(*   string [k |-> "str",  s |-> "..."]                                    *)
(*   number [k |-> "num",  n |-> i]                                        *)
(*   list   [k |-> "list", l |-> <<...>>]                                  *)
(*   dict   [k |-> "dict", d |-> [key |-> value, ...]]                     *)
(* The text produced by f"{x:.2f}" is [k |-> "fixed2", h |-> hundredths].  *)
(***************************************************************************)
EXTENDS Integers, Sequences, FiniteSets, TLC

VARIABLES
    \* --- temperature lookup ---
    iData,      \* Material.data of the queried material
    iKey,       \* prop_key
    iCat,       \* category_data handed to the per-category lookups (or null)
    iSeries,    \* the sample list stored for the property, in disk order
    iPlace,     \* how the property is stored: "present" | "absent" | "nopairs" | "emptyprop"
    iTemp,      \* query temperature
    iRes,       \* value returned by the lookup
    iPc         \* "ready" | "material" | "single" | "table"

VARIABLES
    \* --- structural diff ---
    dOld,       \* old_data handed to find_changes
    dNew,       \* new_data handed to find_changes
    dChanges,   \* the list find_changes returned
    dCount,     \* number of edits applied to dNew since it was copied from dOld
    dPc         \* "idle" | "edit" | "diffed"

VARIABLES
    \* --- files and clock ---
    disk,               \* path |-> parsed content of the file, or Malformed
    ledger,             \* the lines of the change log file
    clock,              \* number of save operations started so far; gives datetime.now()
    \* --- AppData ---
    work_dir,
    materials,          \* list of Material objects (heap ids)
    application_areas,
    current_material,   \* heap id, 0 is None
    \* --- Material objects ---
    heap,               \* id |-> [filepath, filename, data]; data is a key of store
    store,              \* key |-> the dict a Material's data attribute refers to
    \* --- EditorFrame ---
    editing_copy,       \* heap id, 0 is None
    mat_combo,          \* [values, text]
    tabs_state,         \* "disabled" | "normal"
    buttons_state,      \* "disabled" | "normal"
    general_tab,        \* widgets of GeneralDataTab
    phys_tab,           \* widgets of PropertyEditorTab
    mech_tab,           \* attributes and widgets of MechanicalPropertiesTab
    chem_tab,           \* attributes and widgets of ChemicalCompositionTab
    message,            \* the last dialog a handler showed: "" | "info" | "error"
    eCount,             \* number of user operations handled so far
    snapshot            \* history: the catalog as load_materials_from_dir left it

VARIABLES
    \* --- ChemComparisonTab ---
    cMaterials,             \* app_data.materials as the tab reads it: the data of each record
    all_composition_data,   \* one comp_data dict per composition source of the selected materials
    filter_entries,         \* element |-> text of its target entry
    sorted_elements,
    results_grid,           \* the rows of results_grid_frame, top to bottom
    cCount                  \* number of events handled so far

VARIABLES
    \* --- SingleCalculationTab ---
    material_map,           \* display name |-> (material data, category data)
    material_combo,         \* the selected display name, "" when none
    temp_entry,             \* text of the temperature entry
    base_values,            \* prop_key |-> value kept for re-display
    unit_combos,            \* prop_key |-> [state, unit] of its unit selector
    result_widgets,         \* prop_key |-> text shown
    uMessage                \* last message box of the tab: "", "warning" or "error"

VARIABLES
    \* --- a value taken through the factor table and back ---
    rFrom,                  \* the unit the value is in
    rTo,                    \* the unit it is converted to
    rX,                     \* the value, in hundredths
    rThere,                 \* rX in rTo, or <<>>
    rBack,                  \* rThere back in rFrom, or <<>>
    rPc

ivars == <<iData, iKey, iCat, iSeries, iPlace, iTemp, iRes, iPc>>
dvars == <<dOld, dNew, dChanges, dCount, dPc>>
evars == <<disk, ledger, clock, work_dir, materials, application_areas, current_material,
           heap, store, editing_copy, mat_combo, tabs_state, buttons_state,
           general_tab, phys_tab, mech_tab, chem_tab, message, eCount, snapshot>>
cvars == <<cMaterials, all_composition_data, filter_entries, sorted_elements, results_grid, cCount>>
uvars == <<material_map, material_combo, temp_entry, base_values, unit_combos, result_widgets, uMessage>>
rvars == <<rFrom, rTo, rX, rThere, rBack, rPc>>
vars == <<ivars, dvars, evars, cvars, uvars, rvars>>

----------------------------------------------------------------------------
(* JSON values *)

Null == [k |-> "null"]
Str(s) == [k |-> "str", s |-> s]
Num(n) == [k |-> "num", n |-> n]
List(l) == [k |-> "list", l |-> l]
Dict(d) == [k |-> "dict", d |-> d]
Fixed2(h) == [k |-> "fixed2", h |-> h]

IsDict(v) == v.k = "dict"
IsList(v) == v.k = "list"

\* key in d
HasKey(v, key) == IsDict(v) /\ key \in DOMAIN v.d

\* d.get(key, default)
Get(v, key, default) == IF HasKey(v, key) THEN v.d[key] ELSE default

\* Python truthiness of a JSON value (not x is its negation)
Truthy(v) ==
    CASE v.k = "null" -> FALSE
      [] v.k = "str" -> v.s # ""
      [] v.k = "num" -> v.n # 0
      [] v.k = "list" -> Len(v.l) > 0
      [] v.k = "dict" -> DOMAIN v.d # {}
      [] OTHER -> TRUE

EmptyDict == Dict(<<>>)
EmptyList == List(<<>>)

----------------------------------------------------------------------------
(* Temperature lookup *)

\* the "no data" sentinel
NoData == Str("-")

\* temperature and value of a stored [t, v] pair
PairT(p) == p.l[1].n
PairV(p) == p.l[2]

\* sorted(pairs, key=lambda p: p[0]): stable, so equal temperatures keep
\* their order on disk
RECURSIVE InsertByTemp(_, _)
InsertByTemp(s, p) ==
    IF s = <<>> THEN <<p>>
    ELSE IF PairT(s[Len(s)]) <= PairT(p) THEN Append(s, p)
    ELSE Append(InsertByTemp(SubSeq(s, 1, Len(s) - 1), p), s[Len(s)])

RECURSIVE sorted_pairs(_)
sorted_pairs(pairs) ==
    IF pairs = <<>> THEN <<>>
    ELSE InsertByTemp(sorted_pairs(SubSeq(pairs, 1, Len(pairs) - 1)), pairs[Len(pairs)])

\* for t, val in pairs: if t == temp: return val
\* index of the first pair whose temperature equals temp, 0 when there is none
RECURSIVE ExactIndex(_, _, _)
ExactIndex(pairs, i, temp) ==
    IF i > Len(pairs) THEN 0
    ELSE IF PairT(pairs[i]) = temp THEN i
    ELSE ExactIndex(pairs, i + 1, temp)

\* the bracketing scan; a point is <<t, v>> and None is <<>>
RECURSIVE ScanMutFirstLower(_, _, _, _)
ScanMutFirstLower(pairs, i, temp, lower) ==
    IF i > Len(pairs) THEN [lower |-> lower, upper |-> <<>>]
    ELSE IF PairT(pairs[i]) < temp
         THEN ScanMutFirstLower(pairs, i + 1, temp,
                  IF lower = <<>> THEN <<PairT(pairs[i]), PairV(pairs[i]).n>> ELSE lower)
    ELSE IF PairT(pairs[i]) > temp
         THEN [lower |-> lower, upper |-> <<PairT(pairs[i]), PairV(pairs[i]).n>>]
    ELSE ScanMutFirstLower(pairs, i + 1, temp, lower)

\* the first and the last sample, whatever the query
ScanMutEnds(pairs, i, temp, lower) ==
    IF pairs = <<>> THEN [lower |-> <<>>, upper |-> <<>>]
    ELSE [lower |-> <<PairT(pairs[1]), PairV(pairs[1]).n>>,
          upper |-> <<PairT(pairs[Len(pairs)]), PairV(pairs[Len(pairs)]).n>>]

RECURSIVE Scan(_, _, _, _)
Scan(pairs, i, temp, lower) ==
    IF i > Len(pairs) THEN [lower |-> lower, upper |-> <<>>]
    ELSE IF PairT(pairs[i]) < temp
         THEN Scan(pairs, i + 1, temp, <<PairT(pairs[i]), PairV(pairs[i]).n>>)
    ELSE IF PairT(pairs[i]) > temp
         THEN [lower |-> lower, upper |-> <<PairT(pairs[i]), PairV(pairs[i]).n>>]
    ELSE Scan(pairs, i + 1, temp, lower)

\* f"{num/den:.2f}" for den > 0: hundredths of the decimal text, the exact
\* quotient rounded to nearest, ties to even (the ties that occur with these
\* operands are binary fractions, which the float holds exactly)
Format2f(num, den) ==
    LET q == (100 * num) \div den
        r == (100 * num) - q * den
    IN  Fixed2(IF 2 * r < den THEN q
               ELSE IF 2 * r > den THEN q + 1
               ELSE IF q % 2 = 0 THEN q ELSE q + 1)

\* lines 546-563 (and the identical 1181-1199, 774-795): prop_data -> value
InterpolateMutExactFmt(prop_data, temp) ==
    IF ~Truthy(prop_data) \/ ~HasKey(prop_data, "temperature_value_pairs") THEN NoData
    ELSE
    LET pairs == sorted_pairs(prop_data.d["temperature_value_pairs"].l)
        e == ExactIndex(pairs, 1, temp)
        b == Scan(pairs, 1, temp, <<>>)
    IN  IF pairs = <<>> THEN NoData
        ELSE IF e # 0 THEN Format2f(PairV(pairs[e]).n, 1)
        ELSE IF b.lower # <<>> /\ b.upper # <<>>
             THEN LET t1 == b.lower[1]
                      v1 == b.lower[2]
                      t2 == b.upper[1]
                      v2 == b.upper[2]
                  IN  IF t2 - t1 = 0 THEN Num(v1)
                      ELSE Format2f(v1 * (t2 - t1) + (temp - t1) * (v2 - v1), t2 - t1)
        ELSE NoData

InterpolateMutExtrapolate(prop_data, temp) ==
    IF ~Truthy(prop_data) \/ ~HasKey(prop_data, "temperature_value_pairs") THEN NoData
    ELSE
    LET pairs == sorted_pairs(prop_data.d["temperature_value_pairs"].l)
        e == ExactIndex(pairs, 1, temp)
        b == Scan(pairs, 1, temp, <<>>)
    IN  IF pairs = <<>> THEN NoData
        ELSE IF e # 0 THEN PairV(pairs[e])
        ELSE IF b.lower # <<>> /\ b.upper # <<>>
             THEN LET t1 == b.lower[1]
                      v1 == b.lower[2]
                      t2 == b.upper[1]
                      v2 == b.upper[2]
                  IN  IF t2 - t1 = 0 THEN Num(v1)
                      ELSE Format2f(v1 * (t2 - t1) + (temp - t1) * (v2 - v1), t2 - t1)
        ELSE IF b.lower # <<>> THEN Num(b.lower[2])
        ELSE IF b.upper # <<>> THEN Num(b.upper[2])
        ELSE NoData

Interpolate(prop_data, temp) ==
    IF ~Truthy(prop_data) \/ ~HasKey(prop_data, "temperature_value_pairs") THEN NoData
    ELSE
    LET pairs == sorted_pairs(prop_data.d["temperature_value_pairs"].l)
        e == ExactIndex(pairs, 1, temp)
        b == Scan(pairs, 1, temp, <<>>)
    IN  IF pairs = <<>> THEN NoData
        ELSE IF e # 0 THEN PairV(pairs[e])
        ELSE IF b.lower # <<>> /\ b.upper # <<>>
             THEN LET t1 == b.lower[1]
                      v1 == b.lower[2]
                      t2 == b.upper[1]
                      v2 == b.upper[2]
                  IN  IF t2 - t1 = 0 THEN Num(v1)
                      ELSE Format2f(v1 * (t2 - t1) + (temp - t1) * (v2 - v1), t2 - t1)
        ELSE NoData

\* first category of the list that has prop_key (lines 542-545), Null if none
RECURSIVE FirstCategoryWith(_, _, _)
FirstCategoryWith(cats, i, prop_key) ==
    IF i > Len(cats) THEN Null
    ELSE IF HasKey(cats[i], prop_key) THEN cats[i].d[prop_key]
    ELSE FirstCategoryWith(cats, i + 1, prop_key)

\* Material.get_property_at_temp
get_property_at_temp(data, prop_key, temp) ==
    LET phys == Get(data, "physical_properties", EmptyDict)
        cats == Get(Get(data, "mechanical_properties", EmptyDict), "strength_category", EmptyList)
        prop_data == IF HasKey(phys, prop_key) THEN phys.d[prop_key]
                     ELSE FirstCategoryWith(cats.l, 1, prop_key)
    IN  Interpolate(prop_data, temp)

\* SingleCalculationTab.get_property_at_temp
MECHANICAL_KEYS == {"yield_strength"}
PHYSICAL_KEYS == {"density"}

single_get_property_at_temp(data, category_data, prop_key, temp) ==
    LET is_mechanical == prop_key \in MECHANICAL_KEYS
        phys == Get(data, "physical_properties", EmptyDict)
        prop_data == IF is_mechanical
                     THEN IF Truthy(category_data) /\ HasKey(category_data, prop_key)
                          THEN category_data.d[prop_key] ELSE Null
                     ELSE IF HasKey(phys, prop_key) THEN phys.d[prop_key] ELSE Null
    IN  Interpolate(prop_data, temp)

\* TempSelectionTab._get_value_from_prop_data, with the prop_data_dict that
\* _on_calculate hands it (lines 827-829, 836)
_get_value_from_prop_data(prop_data, temp) == Interpolate(prop_data, temp)

table_prop_data(data, category_data, prop_key) ==
    IF prop_key \in PHYSICAL_KEYS
    THEN Get(Get(data, "physical_properties", EmptyDict), prop_key, Null)
    ELSE IF IsDict(category_data) THEN Get(category_data, prop_key, Null) ELSE Null

----------------------------------------------------------------------------
(* Structural diff: find_changes *)

\* Every string used as a dict key or as an identity value, in the order
\* Python's sorted() gives them (code points).
STRING_ORDER ==
    <<"", " (A1)", "Cr", "Fe", "GOST", "KP1", "KP2", "KP3", "Ni",
      "Steel-A", "Steel-A (A1)", "Steel-B", "Steel-B (A1)", "TU",
      "application_area", "base_element", "boilers", "chemical_properties",
      "classification", "classification_category", "classification_class",
      "classification_subclass", "comment", "composition", "composition_source",
      "composition_subsource", "density", "element", "hardness", "material_id",
      "max_value", "max_value_tolerance", "mechanical_properties", "metadata",
      "min_value", "min_value_tolerance", "name_material_alternative",
      "name_material_standard", "other_elements", "physical_properties", "pipes",
      "property_last_updated", "property_name", "property_source",
      "property_subsource", "property_unit", "strength_category",
      "temperature_application", "temperature_value_pairs", "unit_value", "value",
      "value_strength_category", "yield_strength",
      \* the application's Cyrillic names, transliterated; Cyrillic sorts last
      "Novaya kategoriya 1", "Novaya kategoriya 2", "Novaya kategoriya 3",
      "Novaya kategoriya 4", "Novyi istochnik">>

\* sorted(list(S)) for a set of strings
sorted_strings(S) ==
    LET known == {STRING_ORDER[i] : i \in 1..Len(STRING_ORDER)}
        In(x) == x \in S
    IN  IF S \subseteq known THEN SelectSeq(STRING_ORDER, In)
        ELSE CHOOSE q \in {} : TRUE

LIST_ITEM_KEYS(path) ==
    CASE path = <<"mechanical_properties", "strength_category">> -> "value_strength_category"
      [] path = <<"chemical_properties", "composition">> -> "composition_source"
      [] path = <<"chemical_properties", "composition", "other_elements">> -> "element"
      [] OTHER -> ""

VOLATILE_KEYS == {"material_id", "property_last_updated"}

\* json.dumps(v, sort_keys=True)
RECURSIVE json_dumps(_)
RECURSIVE dumps_items(_, _)
RECURSIVE dumps_members(_, _, _)
dumps_items(l, i) ==
    IF i > Len(l) THEN ""
    ELSE (IF i > 1 THEN ", " ELSE "") \o json_dumps(l[i]) \o dumps_items(l, i + 1)
dumps_members(d, keys, i) ==
    IF i > Len(keys) THEN ""
    ELSE (IF i > 1 THEN ", " ELSE "") \o "\"" \o keys[i] \o "\": " \o json_dumps(d[keys[i]])
         \o dumps_members(d, keys, i + 1)
json_dumps(v) ==
    CASE v.k = "null" -> "null"
      [] v.k = "str" -> "\"" \o v.s \o "\""
      [] v.k = "num" -> ToString(v.n)
      [] v.k = "list" -> "[" \o dumps_items(v.l, 1) \o "]"
      [] v.k = "dict" -> "{" \o dumps_members(v.d, sorted_strings(DOMAIN v.d), 1) \o "}"

\* {item[unique_key_name]: item for item in items}: the last item with a
\* given identity value wins
RECURSIVE LastIndexOf(_, _, _, _)
LastIndexOf(items, key_name, ident, i) ==
    IF i = 0 THEN 0
    ELSE IF items[i].d[key_name].s = ident THEN i
    ELSE LastIndexOf(items, key_name, ident, i - 1)

item_map(items, key_name) ==
    [ident \in {items[i].d[key_name].s : i \in 1..Len(items)} |->
        items[LastIndexOf(items, key_name, ident, Len(items))]]

\* is_list_of_dicts_with_key (lines 393-394)
is_list_of_dicts_with_key(d1, d2, unique_key_name) ==
    /\ unique_key_name # ""
    /\ \A i \in 1..Len(d1 \o d2) : HasKey((d1 \o d2)[i], unique_key_name)

RECURSIVE find_changes_recursive(_, _, _)
RECURSIVE dict_loop(_, _, _, _, _)
RECURSIVE items_loop(_, _, _, _, _)

\* body of the loop over all_keys (lines 377-385)
dict_entry_MutAddedUnguarded(d1, d2, path, key) ==
    IF key \in VOLATILE_KEYS THEN <<>>
    ELSE LET new_path == Append(path, key)
             val1 == Get(d1, key, Null)
             val2 == Get(d2, key, Null)
         IN  IF val2 # Null
             THEN <<[path |-> new_path, type |-> "added", new |-> val2]>>
             ELSE IF val1 # Null /\ val2 = Null
             THEN <<[path |-> new_path, type |-> "removed", old |-> val1]>>
             ELSE IF val1 # val2
             THEN find_changes_recursive(val1, val2, new_path)
             ELSE <<>>

dict_entry(d1, d2, path, key) ==
    IF key \in VOLATILE_KEYS THEN <<>>
    ELSE LET new_path == Append(path, key)
             val1 == Get(d1, key, Null)
             val2 == Get(d2, key, Null)
         IN  IF val1 = Null /\ val2 # Null
             THEN <<[path |-> new_path, type |-> "added", new |-> val2]>>
             ELSE IF val1 # Null /\ val2 = Null
             THEN <<[path |-> new_path, type |-> "removed", old |-> val1]>>
             ELSE IF val1 # val2
             THEN find_changes_recursive(val1, val2, new_path)
             ELSE <<>>

dict_loop(d1, d2, path, all_keys, i) ==
    IF i > Len(all_keys) THEN <<>>
    ELSE dict_entry(d1, d2, path, all_keys[i]) \o dict_loop(d1, d2, path, all_keys, i + 1)

\* body of the loop over all_item_keys (lines 403-413)
item_entry(old_map, new_map, path, item_key) ==
    LET item_path == Append(path, path[Len(path)] \o "[" \o item_key \o "]")
    IN  IF item_key \notin DOMAIN old_map
        THEN <<[path |-> item_path, type |-> "added", new |-> new_map[item_key]]>>
        ELSE IF item_key \notin DOMAIN new_map
        THEN <<[path |-> item_path, type |-> "removed", old |-> old_map[item_key]]>>
        ELSE IF old_map[item_key] # new_map[item_key]
        THEN find_changes_recursive(old_map[item_key], new_map[item_key], item_path)
        ELSE <<>>

items_loop(old_map, new_map, path, all_item_keys, i) ==
    IF i > Len(all_item_keys) THEN <<>>
    ELSE item_entry(old_map, new_map, path, all_item_keys[i])
         \o items_loop(old_map, new_map, path, all_item_keys, i + 1)

\* every list compared by position, as one value
list_changes_MutPositional(d1, d2, path) ==
    IF d1 # d2 THEN <<[path |-> path, type |-> "modified", old |-> d1, new |-> d2]>>
    ELSE <<>>

\* lines 388-417
list_changes(d1, d2, path) ==
    LET unique_key_name == LIST_ITEM_KEYS(path)
    IN  IF is_list_of_dicts_with_key(d1.l, d2.l, unique_key_name)
        THEN LET old_map == item_map(d1.l, unique_key_name)
                 new_map == item_map(d2.l, unique_key_name)
             IN  items_loop(old_map, new_map, path,
                            sorted_strings(DOMAIN old_map \cup DOMAIN new_map), 1)
        ELSE IF json_dumps(d1) # json_dumps(d2)
        THEN <<[path |-> path, type |-> "modified", old |-> d1, new |-> d2]>>
        ELSE <<>>

find_changes_recursive(d1, d2, path) ==
    IF IsDict(d1) /\ IsDict(d2)
    THEN dict_loop(d1, d2, path, sorted_strings(DOMAIN d1.d \cup DOMAIN d2.d), 1)
    ELSE IF IsList(d1) /\ IsList(d2)
    THEN list_changes(d1, d2, path)
    ELSE IF d1 # d2
    THEN <<[path |-> path, type |-> "modified", old |-> d1, new |-> d2]>>
    ELSE <<>>

find_changes(old_data, new_data) == find_changes_recursive(old_data, new_data, <<>>)

----------------------------------------------------------------------------
(* Lookup inputs *)

MaxSamples == 3
SampleTemps == {0, 2, 8}
SampleValues == {0, 1, 3}
QueryTemps == {-1, 0, 1, 2, 5, 8, 9}

Pair(t, v) == List(<<Num(t), Num(v)>>)
AllPairs == {Pair(t, v) : t \in SampleTemps, v \in SampleValues}
SeriesSet == UNION {[1..n -> AllPairs] : n \in 0..MaxSamples}

\* the property series as stored
PropData(place, series) ==
    CASE place = "present" ->
           Dict([property_source |-> Str("GOST"), temperature_value_pairs |-> List(series)])
      [] place = "nopairs" -> Dict([property_source |-> Str("GOST")])
      [] OTHER -> EmptyDict

WithProp(base, key, place, series) ==
    IF place = "absent" THEN base
    ELSE Dict([x \in DOMAIN base.d \cup {key} |->
                 IF x = key THEN PropData(place, series) ELSE base.d[x]])

CategoryA == Dict([value_strength_category |-> Str("KP1"), hardness |-> EmptyList])
CategoryB(key, place, series) ==
    WithProp(Dict([value_strength_category |-> Str("KP2"), hardness |-> EmptyList]),
             key, place, series)

LookupRecord(key, place, series) ==
    Dict([material_id |-> Str("id1"),
          physical_properties |->
              IF key \in PHYSICAL_KEYS THEN WithProp(EmptyDict, key, place, series) ELSE EmptyDict,
          mechanical_properties |-> Dict([strength_category |->
              IF key \in MECHANICAL_KEYS
              THEN List(<<CategoryA, CategoryB(key, place, series)>>)
              ELSE List(<<CategoryA>>)])])

\* the other components at rest
DiffIdle == dOld = Null /\ dNew = Null /\ dChanges = <<>> /\ dCount = 0 /\ dPc = "idle"

EditorIdle ==
    /\ disk = <<>> /\ ledger = <<>> /\ clock = 0
    /\ work_dir = "" /\ materials = <<>> /\ application_areas = <<>> /\ current_material = 0
    /\ heap = <<>> /\ store = <<>>
    /\ editing_copy = 0 /\ mat_combo = <<>> /\ tabs_state = "disabled" /\ buttons_state = "disabled"
    /\ general_tab = <<>> /\ phys_tab = <<>> /\ mech_tab = <<>> /\ chem_tab = <<>>
    /\ message = "" /\ eCount = 0 /\ snapshot = <<>>

ChemIdle ==
    /\ cMaterials = <<>> /\ all_composition_data = <<>> /\ filter_entries = <<>>
    /\ sorted_elements = <<>> /\ results_grid = <<>> /\ cCount = 0

UnitsIdle ==
    /\ material_map = <<>> /\ material_combo = "" /\ temp_entry = ""
    /\ base_values = <<>> /\ unit_combos = <<>> /\ result_widgets = <<>> /\ uMessage = ""

RoundTripIdle ==
    /\ rFrom = "" /\ rTo = "" /\ rX = 0 /\ rThere = <<>> /\ rBack = <<>> /\ rPc = "idle"

InitLookup ==
    /\ iKey \in PHYSICAL_KEYS \cup MECHANICAL_KEYS
    /\ iPlace \in {"present", "absent", "nopairs", "emptyprop"}
    /\ iSeries \in SeriesSet
    /\ iPlace # "present" => iSeries = <<>>
    /\ iData = LookupRecord(iKey, iPlace, iSeries)
    /\ iCat \in {Null} \cup {iData.d["mechanical_properties"].d["strength_category"].l[i] :
                    i \in 1..Len(iData.d["mechanical_properties"].d["strength_category"].l)}
    /\ iTemp \in QueryTemps
    /\ iRes = Null
    /\ iPc = "ready"
    /\ DiffIdle
    /\ EditorIdle
    /\ ChemIdle
    /\ UnitsIdle
    /\ RoundTripIdle

\* Material.get_property_at_temp(prop_key, temp)
CalcMaterial ==
    /\ iPc = "ready"
    /\ iRes' = get_property_at_temp(iData, iKey, iTemp)
    /\ iPc' = "material"
    /\ UNCHANGED <<iData, iKey, iCat, iSeries, iPlace, iTemp, dvars, evars, cvars, uvars, rvars>>

\* SingleCalculationTab._on_calculate for one property
CalcSingle ==
    /\ iPc = "ready"
    /\ iRes' = single_get_property_at_temp(iData, iCat, iKey, iTemp)
    /\ iPc' = "single"
    /\ UNCHANGED <<iData, iKey, iCat, iSeries, iPlace, iTemp, dvars, evars, cvars, uvars, rvars>>

\* TempSelectionTab._on_calculate for one cell
CalcTable ==
    /\ iPc = "ready"
    /\ iRes' = _get_value_from_prop_data(table_prop_data(iData, iCat, iKey), iTemp)
    /\ iPc' = "table"
    /\ UNCHANGED <<iData, iKey, iCat, iSeries, iPlace, iTemp, dvars, evars, cvars, uvars, rvars>>

\* the user types another temperature
Requery ==
    /\ iPc # "ready"
    /\ \E t \in QueryTemps : iTemp' = t
    /\ iRes' = Null
    /\ iPc' = "ready"
    /\ UNCHANGED <<iData, iKey, iCat, iSeries, iPlace, dvars, evars, cvars, uvars, rvars>>

NextLookup == CalcMaterial \/ CalcSingle \/ CalcTable \/ Requery

SpecLookup == InitLookup /\ [][NextLookup]_vars

----------------------------------------------------------------------------
(* Properties of the temperature lookup *)

LookupDone == iPc # "ready"

\* the front-end that ran resolves prop_key to the stored series
SeriesFound ==
    /\ iPlace = "present"
    /\ iPc \in {"single", "table"} /\ iKey \in MECHANICAL_KEYS => HasKey(iCat, iKey)

SampleIdx == 1..Len(iSeries)
BelowIdx == {i \in SampleIdx : PairT(iSeries[i]) < iTemp}
AboveIdx == {i \in SampleIdx : PairT(iSeries[i]) > iTemp}
ExactIdx == {i \in SampleIdx : PairT(iSeries[i]) = iTemp}
NearestBelow == {i \in BelowIdx : \A j \in BelowIdx : PairT(iSeries[j]) <= PairT(iSeries[i])}
NearestAbove == {i \in AboveIdx : \A j \in AboveIdx : PairT(iSeries[j]) >= PairT(iSeries[i])}

\* v_lower + (t - t_lower) * (v_upper - v_lower) / (t_upper - t_lower), two decimals
Linear2f(lo, up, t) ==
    Format2f(PairV(lo).n * (PairT(up) - PairT(lo)) + (t - PairT(lo)) * (PairV(up).n - PairV(lo).n),
             PairT(up) - PairT(lo))

YieldExample ==
    Dict([temperature_value_pairs |-> List(<<Pair(0, 250), Pair(100, 230), Pair(200, 200)>>)])

\* C1: a query strictly between two sample temperatures, equal to none,
\* returns the linear interpolation between the nearest sample below and the
\* nearest sample above, formatted to two decimals, whatever the order of the
\* samples on disk; [[0,250],[100,230],[200,200]] at 150 gives 215.00.
C1_Interpolates ==
    /\ (LookupDone /\ SeriesFound /\ ExactIdx = {} /\ BelowIdx # {} /\ AboveIdx # {})
          => \E lo \in NearestBelow, up \in NearestAbove :
                iRes = Linear2f(iSeries[lo], iSeries[up], iTemp)
    /\ Interpolate(YieldExample, 150) = Fixed2(21500)

\* two samples below the query, stored on disk in descending order
C1_Witness ==
    /\ iPc = "material" /\ SeriesFound /\ ExactIdx = {} /\ AboveIdx # {}
    /\ \E i, j \in BelowIdx : i < j /\ PairT(iSeries[i]) > PairT(iSeries[j])
                               /\ PairV(iSeries[i]) # PairV(iSeries[j])
    /\ iRes.k = "fixed2"

\* C2: a query equal to a sample temperature returns that sample's stored
\* value itself (a number, not formatted text); with several samples at that
\* temperature, the first of them in sorted order, which for a stable sort is
\* the first of them on disk.
C2_ExactReturnsStored ==
    (LookupDone /\ SeriesFound /\ ExactIdx # {})
        => \E i \in ExactIdx : /\ \A j \in ExactIdx : i <= j
                               /\ iRes = PairV(iSeries[i])
                               /\ iRes.k = "num"

\* two samples at the query temperature with different values
C2_Witness ==
    /\ iPc = "table" /\ SeriesFound
    /\ \E i, j \in ExactIdx : i < j /\ PairV(iSeries[i]) # PairV(iSeries[j])
                               /\ iRes = PairV(iSeries[i])

\* C3: no extrapolation: a query below the smallest or above the largest
\* sample temperature returns "-", and so does a missing property, a property
\* without a sample list and an empty sample list.
C3_NoExtrapolation ==
    (LookupDone /\ (\/ ~SeriesFound
                    \/ iSeries = <<>>
                    \/ \A i \in SampleIdx : PairT(iSeries[i]) > iTemp
                    \/ \A i \in SampleIdx : PairT(iSeries[i]) < iTemp))
        => iRes = NoData

\* a query above every sample of a stored, non-empty series
C3_Witness ==
    /\ iPc = "single" /\ SeriesFound /\ Len(iSeries) >= 2
    /\ \A i \in SampleIdx : PairT(iSeries[i]) < iTemp
    /\ iRes = NoData

----------------------------------------------------------------------------
(* Diff inputs: records in the on-disk format and the edits made to them *)

\* read and write a value inside nested dicts (string step) and lists (index step)
RECURSIVE GetIn(_, _)
GetIn(v, p) ==
    IF Len(p) = 0 THEN v
    ELSE IF IsDict(v) THEN GetIn(v.d[p[1]], Tail(p))
    ELSE GetIn(v.l[p[1]], Tail(p))

UpdKey(v, key, val) == Dict([x \in DOMAIN v.d \cup {key} |-> IF x = key THEN val ELSE v.d[x]])
DelKey(v, key) == Dict([x \in DOMAIN v.d \ {key} |-> v.d[x]])

RECURSIVE SetIn(_, _, _)
SetIn(v, p, val) ==
    IF Len(p) = 0 THEN val
    ELSE IF IsDict(v)
         THEN UpdKey(v, p[1], IF Len(p) = 1 THEN val ELSE SetIn(v.d[p[1]], Tail(p), val))
    ELSE List([v.l EXCEPT ![p[1]] = SetIn(v.l[p[1]], Tail(p), val)])

RECURSIVE DelIn(_, _)
DelIn(v, p) ==
    IF Len(p) = 1 THEN DelKey(v, p[1])
    ELSE IF IsDict(v) THEN UpdKey(v, p[1], DelIn(v.d[p[1]], Tail(p)))
    ELSE List([v.l EXCEPT ![p[1]] = DelIn(v.l[p[1]], Tail(p))])

RemoveAt(l, i) == SubSeq(l, 1, i - 1) \o SubSeq(l, i + 1, Len(l))

SeriesOf(src, ts) ==
    Dict([property_source |-> Str(src),
          temperature_value_pairs |-> List(<<Pair(0, 250), Pair(100, 230)>>),
          property_last_updated |-> Str(ts)])

HardnessOf(min) ==
    Dict([property_source |-> Str("GOST"), min_value |-> min, max_value |-> Num(200)])

CategoryOf(name, src, min) ==
    Dict([value_strength_category |-> Str(name),
          yield_strength |-> SeriesOf(src, "t1"),
          hardness |-> List(<<HardnessOf(min)>>)])

\* a category stored without its name (readers default it: lines 1156, 2754)
UnnamedCategory == DelKey(CategoryOf("", "TU", Null), "value_strength_category")

ElementOf(sym, min, max) ==
    Dict([element |-> Str(sym), min_value |-> Num(min), max_value |-> Num(max)])

SourceOf(name, elems) ==
    Dict([composition_source |-> Str(name), other_elements |-> List(elems)])

RecordOf(temp_app, cats, comps) ==
    Dict([material_id |-> Str("id1"),
          metadata |-> Dict([name_material_standard |-> Str("Steel-A"),
                             name_material_alternative |-> List(<<Str("A1")>>),
                             temperature_application |-> temp_app]),
          physical_properties |-> Dict([density |-> SeriesOf("GOST", "t1")]),
          mechanical_properties |-> Dict([strength_category |-> List(cats)]),
          chemical_properties |-> Dict([composition |-> List(comps)])])

TempApp(v) == Dict([value |-> v, comment |-> Str("")])

BaseRecords ==
    { \* distinct identity values everywhere
      RecordOf(TempApp(Num(450)),
               <<CategoryOf("KP1", "GOST", Num(100)), CategoryOf("KP2", "TU", Null)>>,
               <<SourceOf("GOST", <<ElementOf("Cr", 10, 14), ElementOf("Ni", 1, 2)>>)>>),
      \* no maximum application temperature, two composition sources
      RecordOf(TempApp(Null),
               <<CategoryOf("KP1", "GOST", Num(100))>>,
               <<SourceOf("GOST", <<ElementOf("Cr", 10, 14)>>), SourceOf("TU", <<ElementOf("Cr", 11, 14)>>)>>),
      \* two categories and two sources with the same identity value
      RecordOf(TempApp(Num(450)),
               <<CategoryOf("KP1", "GOST", Num(100)), CategoryOf("KP1", "TU", Null)>>,
               <<SourceOf("GOST", <<ElementOf("Cr", 10, 14)>>), SourceOf("GOST", <<ElementOf("Ni", 1, 2)>>)>>),
      \* a category without a name
      RecordOf(TempApp(Num(450)),
               <<CategoryOf("KP1", "GOST", Num(100)), UnnamedCategory>>,
               <<>>),
      \* no strength categories, no composition
      RecordOf(TempApp(Num(450)), <<>>, <<>>) }

CatPath == <<"mechanical_properties", "strength_category">>
CompPath == <<"chemical_properties", "composition">>
TempAppPath == <<"metadata", "temperature_application">>
Cats(r) == GetIn(r, CatPath).l
Comps(r) == GetIn(r, CompPath).l

CategoryNames == {"KP1", "KP2", "KP3"}
SourceNames == {"GOST", "TU"}

\* one strength category renamed
RenameCat(r, i, name) == SetIn(r, CatPath \o <<i, "value_strength_category">>, Str(name))
NamedCats(r) == {i \in 1..Len(Cats(r)) : HasKey(Cats(r)[i], "value_strength_category")}

\* one field of one element changed; one element added; one element removed
ElemPath(s, e) == CompPath \o <<s, "other_elements", e>>
SetElementField(r, s, e, field, v) == SetIn(r, ElemPath(s, e) \o <<field>>, v)
AddElement(r, s, elem) ==
    SetIn(r, CompPath \o <<s, "other_elements">>,
          List(Append(Comps(r)[s].d["other_elements"].l, elem)))
RemoveElement(r, s, e) ==
    SetIn(r, CompPath \o <<s, "other_elements">>,
          List(RemoveAt(Comps(r)[s].d["other_elements"].l, e)))
ElemSlots(r) ==
    {<<s, e>> : s \in 1..Len(Comps(r)), e \in 1..2} \cap
    UNION {{<<s, e>> : e \in 1..Len(Comps(r)[s].d["other_elements"].l)} : s \in 1..Len(Comps(r))}

\* the places where the volatile fields occur
VolatilePaths(r) ==
    {<<"material_id">>, <<"physical_properties", "density", "property_last_updated">>}
    \cup {CatPath \o <<i, "yield_strength", "property_last_updated">> : i \in 1..Len(Cats(r))}

\* scalar leaves reached through dict keys only
KeyedLeafPaths(r) ==
    {<<"metadata", "name_material_standard">>,
     <<"physical_properties", "density", "property_source">>}
    \cup (IF HasKey(r.d["metadata"], "temperature_application")
          THEN {TempAppPath \o <<"value">>, TempAppPath \o <<"comment">>} ELSE {})

\* scalar leaves inside list items
ItemLeafPaths(r) ==
    {CatPath \o <<i, "yield_strength", "property_source">> : i \in 1..Len(Cats(r))}
    \cup {CatPath \o <<i, "hardness", 1, "min_value">> : i \in 1..Len(Cats(r))}

\* the values a leaf can take: text fields hold strings, numeric fields a
\* number or null (value, min_value: "<number|null>" in the record format)
LeafValues(p) ==
    IF p[Len(p)] \in {"value", "min_value"} THEN {Null, Num(450), Num(500)}
    ELSE {Str(""), Str("Steel-B")}

MaxEdits == 2

InitDiff ==
    /\ dOld \in BaseRecords
    /\ dNew = dOld
    /\ dChanges = <<>>
    /\ dCount = 0
    /\ dPc = "edit"
    /\ iData = Null /\ iKey = "" /\ iCat = Null /\ iSeries = <<>> /\ iPlace = "absent"
    /\ iTemp = 0 /\ iRes = Null /\ iPc = "idle"
    /\ EditorIdle
    /\ ChemIdle
    /\ UnitsIdle
    /\ RoundTripIdle

Edited(r) ==
    /\ dPc = "edit"
    /\ dCount < MaxEdits
    /\ dNew' = r
    /\ dCount' = dCount + 1
    /\ UNCHANGED <<dOld, dChanges, dPc, ivars, evars, cvars, uvars, rvars>>

\* a scalar leaf gets another value
EditLeaf ==
    \E p \in KeyedLeafPaths(dNew) \cup ItemLeafPaths(dNew) :
        \E v \in LeafValues(p) : Edited(SetIn(dNew, p, v))

\* a dict gains or loses a key (temperature_application.value may hold null)
EditKey ==
    \/ Edited(SetIn(dNew, <<"metadata", "comment">>, Str("note")))
    \/ /\ HasKey(dNew.d["metadata"], "temperature_application")
       /\ Edited(DelIn(dNew, TempAppPath))
    \/ /\ HasKey(dNew.d["metadata"], "temperature_application")
       /\ HasKey(GetIn(dNew, TempAppPath), "value")
       /\ Edited(DelIn(dNew, TempAppPath \o <<"value">>))
    \/ \E v \in {Null, Num(500)} :
          Edited(SetIn(dNew, TempAppPath, Dict([value |-> v, comment |-> Str("max")])))

\* a volatile field gets another value
EditVolatile ==
    \E p \in VolatilePaths(dNew), v \in {Str("id2"), Str("t2")} :
        Edited(SetIn(dNew, p, v))

\* a plain value list changes
EditPlainList ==
    \E l \in {<<>>, <<Str("A1"), Str("A2")>>, <<Str("A2"), Str("A1")>>} :
        Edited(SetIn(dNew, <<"metadata", "name_material_alternative">>, List(l)))

\* the strength-category list: rename, add, delete, reorder
EditCategories ==
    \/ \E i \in NamedCats(dNew), name \in CategoryNames : Edited(RenameCat(dNew, i, name))
    \/ \E name \in CategoryNames, pos \in 0..Len(Cats(dNew)) :
          /\ Len(Cats(dNew)) < 3
          /\ Edited(SetIn(dNew, CatPath,
                 List(SubSeq(Cats(dNew), 1, pos) \o <<CategoryOf(name, "TU", Null)>>
                      \o SubSeq(Cats(dNew), pos + 1, Len(Cats(dNew))))))
    \/ \E i \in 1..Len(Cats(dNew)) : Edited(SetIn(dNew, CatPath, List(RemoveAt(Cats(dNew), i))))
    \/ /\ Len(Cats(dNew)) = 2
       /\ Edited(SetIn(dNew, CatPath, List(<<Cats(dNew)[2], Cats(dNew)[1]>>)))

\* the composition: element fields, elements, sources
EditComposition ==
    \/ \E se \in ElemSlots(dNew), f \in {"min_value", "max_value"}, v \in {Num(11), Num(15)} :
          Edited(SetElementField(dNew, se[1], se[2], f, v))
    \/ \E s \in 1..Len(Comps(dNew)), sym \in {"Cr", "Ni"} :
          /\ Len(Comps(dNew)[s].d["other_elements"].l) < 2
          /\ Edited(AddElement(dNew, s, ElementOf(sym, 1, 2)))
    \/ \E se \in ElemSlots(dNew) : Edited(RemoveElement(dNew, se[1], se[2]))
    \/ /\ Len(Comps(dNew)) = 2
       /\ Edited(SetIn(dNew, CompPath, List(<<Comps(dNew)[2], Comps(dNew)[1]>>)))
    \/ \E name \in SourceNames :
          /\ Len(Comps(dNew)) < 2
          /\ Edited(SetIn(dNew, CompPath, List(Append(Comps(dNew), SourceOf(name, <<>>)))))

\* find_changes(old_data, new_data)
RunDiff ==
    /\ dPc = "edit"
    /\ dChanges' = find_changes(dOld, dNew)
    /\ dPc' = "diffed"
    /\ UNCHANGED <<dOld, dNew, dCount, ivars, evars, cvars, uvars, rvars>>

NextDiff ==
    EditLeaf \/ EditKey \/ EditVolatile \/ EditPlainList \/ EditCategories \/ EditComposition
    \/ RunDiff

SpecDiff == InitDiff /\ [][NextDiff]_vars

----------------------------------------------------------------------------
(* Properties of the diff *)

Diffed == dPc = "diffed"
Entries == {dChanges[i] : i \in 1..Len(dChanges)}

\* C4: the diff of a record against itself is empty, for records with nested
\* strength categories, hardness lists and composition sources with elements.
C4_SelfDiffEmpty ==
    Diffed => /\ find_changes(dNew, dNew) = <<>>
              /\ dNew = dOld => dChanges = <<>>

\* an unchanged record with two categories (with hardness) and a source with elements
C4_Witness ==
    /\ Diffed /\ dNew = dOld /\ dChanges = <<>>
    /\ Len(Cats(dOld)) = 2 /\ Len(Cats(dOld)[1].d["hardness"].l) = 1
    /\ Len(Comps(dOld)) >= 1 /\ Len(Comps(dOld)[1].d["other_elements"].l) = 2

CatName(r, i) == Cats(r)[i].d["value_strength_category"].s
CatItemPath(name) == CatPath \o <<"strength_category[" \o name \o "]">>

\* C5: when the only difference is that one strength category was renamed,
\* the diff is exactly one 'removed' entry for the old name and one 'added'
\* entry for the new name under the strength-category list, and nothing else
\* (stated for records whose categories all carry their name).
C5_RenameIsRemovedPlusAdded ==
    (Diffed /\ NamedCats(dOld) = 1..Len(Cats(dOld))) =>
      \A i \in NamedCats(dOld), name \in CategoryNames :
        (name # CatName(dOld, i) /\ dNew = RenameCat(dOld, i, name)) =>
          /\ Len(dChanges) = 2
          /\ Entries = {[path |-> CatItemPath(CatName(dOld, i)), type |-> "removed",
                         old |-> Cats(dOld)[i]],
                        [path |-> CatItemPath(name), type |-> "added",
                         new |-> Cats(dNew)[i]]}

ElemSym(r, s, e) == Comps(r)[s].d["other_elements"].l[e].d["element"].s
ElemSyms(r, s) == {ElemSym(r, s, e) : e \in 1..Len(Comps(r)[s].d["other_elements"].l)}
HasSegment(path, seg) == \E j \in 1..Len(path) : path[j] = seg

\* C6: the element list of a composition source is identity-keyed by element
\* symbol: a changed field of one element is reported under the segment
\* other_elements[<symbol>], an added or removed element is one 'added' or
\* 'removed' entry for that element, and the list is never reported as one
\* 'modified' entry carrying the whole list.
C6_ElementsAreKeyed ==
    Diffed =>
      /\ \A se \in ElemSlots(dOld), f \in {"min_value", "max_value"}, v \in {Num(11), Num(15)} :
           (dNew # dOld /\ dNew = SetElementField(dOld, se[1], se[2], f, v)) =>
             /\ dChanges # <<>>
             /\ \A c \in Entries :
                  HasSegment(c.path, "other_elements[" \o ElemSym(dOld, se[1], se[2]) \o "]")
      /\ \A s \in 1..Len(Comps(dOld)), sym \in {"Cr", "Ni"} :
           (sym \notin ElemSyms(dOld, s) /\ dNew = AddElement(dOld, s, ElementOf(sym, 1, 2))) =>
             /\ Len(dChanges) = 1
             /\ dChanges[1].type = "added"
             /\ dChanges[1].new = ElementOf(sym, 1, 2)
      /\ \A se \in ElemSlots(dOld) :
           dNew = RemoveElement(dOld, se[1], se[2]) =>
             /\ Len(dChanges) = 1
             /\ dChanges[1].type = "removed"
             /\ dChanges[1].old = Comps(dOld)[se[1]].d["other_elements"].l[se[2]]

\* a record without material_id and property_last_updated, at every level
RECURSIVE StripVolatile(_)
StripVolatile(v) ==
    IF IsDict(v) THEN Dict([x \in DOMAIN v.d \ VOLATILE_KEYS |-> StripVolatile(v.d[x])])
    ELSE IF IsList(v) THEN List([j \in 1..Len(v.l) |-> StripVolatile(v.l[j])])
    ELSE v

\* C7: material_id and property_last_updated are excluded at every nesting
\* level: two records that differ only in the values of these fields, wherever
\* they occur, have an empty diff.
C7_VolatileExcluded ==
    (Diffed /\ StripVolatile(dOld) = StripVolatile(dNew)) => dChanges = <<>>

\* the pairs of dict nodes the traversal can reach through dict keys
RECURSIVE DictNodes(_, _, _)
DictNodes(a, b, path) ==
    {[path |-> path, a |-> a, b |-> b]} \cup
    UNION {DictNodes(a.d[x], b.d[x], Append(path, x)) :
             x \in {y \in (DOMAIN a.d \cap DOMAIN b.d) \ VOLATILE_KEYS :
                      IsDict(a.d[y]) /\ IsDict(b.d[y])}}

\* C8: at every dict node, a non-volatile key present only in the new side is
\* reported 'added' and a key present only in the old side 'removed', whatever
\* its value (null included); a key present on both sides is never reported
\* 'added' or 'removed'.
C8_KeyPresenceDecides ==
    Diffed =>
      \A n \in DictNodes(dOld, dNew, <<>>) :
        \A x \in (DOMAIN n.a.d \cup DOMAIN n.b.d) \ VOLATILE_KEYS :
          LET at == {c \in Entries : c.path = Append(n.path, x)}
          IN  /\ x \notin DOMAIN n.a.d => \E c \in at : c.type = "added"
              /\ x \notin DOMAIN n.b.d => \E c \in at : c.type = "removed"
              /\ (x \in DOMAIN n.a.d /\ x \in DOMAIN n.b.d) =>
                    \A c \in at : c.type \notin {"added", "removed"}

\* C9: when old and new differ in exactly one scalar leaf, the diff is exactly
\* one entry: path = the key sequence from the root to the leaf, kind
\* 'modified', old and new = the two values.
C9_OneLeafOneModified ==
    Diffed =>
      \A p \in KeyedLeafPaths(dOld) \cap KeyedLeafPaths(dNew) :
        (GetIn(dOld, p) # GetIn(dNew, p) /\ dNew = SetIn(dOld, p, GetIn(dNew, p))) =>
          dChanges = <<[path |-> p, type |-> "modified",
                        old |-> GetIn(dOld, p), new |-> GetIn(dNew, p)]>>

----------------------------------------------------------------------------
(***************************************************************************)
(* The editor: AppData, Material objects and EditorFrame with its tabs.    *)
(*                                                                         *)
(* Material objects live in heap; the dict a Material's data attribute     *)
(* refers to lives in store, so that two objects can share one dict.       *)
(* A handler is an operator from the application state (a record of all    *)
(* editor variables, plus exc: an exception is propagating) to the state   *)
(* it leaves.  Indexes are 1-based; 0 stands for -1 and for None.          *)
(* Entry and cell contents are strings.  Cyrillic literals of the source   *)
(* are transliterated.                                                     *)
(***************************************************************************)

NoPath == <<>>
Malformed == [k |-> "malformed"]
NEW_FILENAME == "Novyi material.json"

\* ---- texts ----

\* numbers that occur as text in entries and cells
KnownNumbers == {0, 1, 2, 10, 12, 14, 15, 20, 100, 200, 450, 7850}
\* texts that are not numbers
KnownWords ==
    {"", " ", "None", "hot", "note", "max", "HB", "%", "Fe", "Cr", "Ni", "GOST", "TU",
     "KP1", "KP2", "Steel-A", "Steel-B", "A1", "boilers", "pipes",
     "Novaya kategoriya 1", "Novaya kategoriya 2", "Novaya kategoriya 3",
     "Novaya kategoriya 4", "Novyi istochnik"}

ValueError == [k |-> "ValueError"]
TypeError == [k |-> "TypeError"]

\* float('inf'), float('-inf'), float('nan')
Inf == [k |-> "inf"]
NegInf == [k |-> "-inf"]
NaN == [k |-> "nan"]

\* float(s)
ParseFloat(s) ==
    IF \E n \in KnownNumbers : ToString(n) = s
    THEN Num(CHOOSE n \in KnownNumbers : ToString(n) = s)
    ELSE IF s = "inf" THEN Inf
    ELSE IF s = "nan" THEN NaN
    ELSE IF s \in KnownWords THEN ValueError
    ELSE CHOOSE q \in {} : TRUE

\* s.strip(); no other known text has blanks at its ends
Strip(s) == IF s = " " THEN "" ELSE s

\* the text Tk shows for a value placed in a list of cell values (tkinter._stringify)
tk_text(v) ==
    CASE v.k = "str"  -> v.s
      [] v.k = "num"  -> IF v.n \in KnownNumbers THEN ToString(v.n) ELSE CHOOSE q \in {} : TRUE
      [] v.k = "null" -> "None"

RECURSIVE join(_, _)
\* ", ".join(parts)
join(parts, i) ==
    IF i > Len(parts) THEN ""
    ELSE IF i = Len(parts) THEN parts[i]
    ELSE parts[i] \o ", " \o join(parts, i + 1)

\* [name.strip() for name in alt_names_str.split(',') if name.strip()]
split_names(s) ==
    CASE s = ""       -> <<>>
      [] s = " "      -> <<>>
      [] s = "A1"     -> <<"A1">>
      [] s = "A1, A2" -> <<"A1", "A2">>

\* position of a string in code point order
StrRank(s) == CHOOSE i \in 1..Len(STRING_ORDER) : STRING_ORDER[i] = s

\* ---- Material ----

\* Material.get_empty_structure(); uuid stands for str(uuid.uuid4())
get_empty_structure(uuid) ==
    Dict([material_id |-> Str(uuid),
          metadata |-> Dict([name_material_standard |-> Str(""),
                              name_material_alternative |-> EmptyList,
                              application_area |-> EmptyList,
                              comment |-> Str(""),
                              classification |-> Dict([classification_category |-> Str(""),
                                                        classification_class |-> Str(""),
                                                        classification_subclass |-> Str("")])]),
          physical_properties |-> EmptyDict,
          mechanical_properties |-> Dict([strength_category |-> EmptyList]),
          chemical_properties |-> Dict([composition |-> EmptyList])])

\* Material.get_name()
get_name(data) ==
    Get(Get(data, "metadata", EmptyDict), "name_material_standard", Str("Bez imeni")).s

\* Material.get_display_name()
get_display_name(data) ==
    LET meta == Get(data, "metadata", EmptyDict)
        standard_name == Get(meta, "name_material_standard", Str("Bez imeni")).s
        alternatives == Get(meta, "name_material_alternative", EmptyList)
        NonBlank(alt) == Strip(alt.s) # ""
        kept == SelectSeq(alternatives.l, NonBlank)
        valid_alternatives == [i \in 1..Len(kept) |-> Strip(kept[i].s)]
    IN  IF Truthy(alternatives) /\ valid_alternatives # <<>>
        THEN standard_name \o " (" \o join(valid_alternatives, 1) \o ")"
        ELSE standard_name

\* ---- objects ----

DataOf(st, m) == st.store[st.heap[m].data]
SetData(st, m, v) == [st EXCEPT !.store[st.heap[m].data] = v]
DisplayName(st, m) == get_display_name(DataOf(st, m))
\* m.data.get(...) raises AttributeError: the file held JSON that is not an object
NoGet(st, m) == ~IsDict(DataOf(st, m))
\* some object of the materials list is such an object
HasNoGet(st) == \E i \in 1..Len(st.materials) : NoGet(st, st.materials[i])

\* the objects some attribute still refers to
Live(st) ==
    ({st.materials[i] : i \in 1..Len(st.materials)}
     \cup {st.current_material, st.editing_copy, st.mech_tab.material, st.chem_tab.material}) \ {0}

\* objects nothing refers to are freed
Collect(st) ==
    LET live == Live(st)
        dicts == {st.heap[m].data : m \in live}
    IN  [st EXCEPT !.heap = [m \in live |-> st.heap[m]],
                   !.store = [r \in dicts |-> st.store[r]]]

RECURSIVE FirstSeen(_, _)
\* the distinct non-zero members of a sequence, in the order they first occur
FirstSeen(refs, seen) ==
    IF refs = <<>> THEN <<>>
    ELSE IF Head(refs) = 0 \/ Head(refs) \in seen THEN FirstSeen(Tail(refs), seen)
    ELSE <<Head(refs)>> \o FirstSeen(Tail(refs), seen \cup {Head(refs)})

\* addresses carry no meaning: objects are numbered in the order the attributes
\* reach them (materials, current_material, editing_copy, the tabs' material)
Renumber(st) ==
    LET objs == FirstSeen(st.materials \o <<st.current_material, st.editing_copy,
                                            st.mech_tab.material, st.chem_tab.material>>, {})
        dicts == FirstSeen([i \in 1..Len(objs) |-> st.heap[objs[i]].data], {})
        Obj(m) == IF m = 0 THEN 0 ELSE CHOOSE i \in 1..Len(objs) : objs[i] = m
        Ref(r) == CHOOSE i \in 1..Len(dicts) : dicts[i] = r
    IN  [st EXCEPT
           !.materials = [i \in 1..Len(st.materials) |-> Obj(st.materials[i])],
           !.current_material = Obj(@),
           !.editing_copy = Obj(@),
           !.mech_tab.material = Obj(@),
           !.chem_tab.material = Obj(@),
           !.heap = [i \in 1..Len(objs) |-> [st.heap[objs[i]] EXCEPT !.data = Ref(@)]],
           !.store = [i \in 1..Len(dicts) |-> st.store[dicts[i]]]]

\* the address a new object gets
FreshId(st) ==
    LET used == DOMAIN st.heap \cup DOMAIN st.store
    IN  CHOOSE k \in 1..(Cardinality(used) + 1) :
            k \notin used /\ \A j \in 1..(k - 1) : j \in used

\* Material() : a new object with the empty template
Material_empty(st, uuid) ==
    LET k == FreshId(st)
    IN  [obj |-> k,
         st  |-> [st EXCEPT !.heap = (k :> [filepath |-> NoPath, filename |-> NEW_FILENAME, data |-> k]) @@ @,
                            !.store = (k :> get_empty_structure(uuid)) @@ @]]

\* Material(filepath=filepath) : json.load of the file; raises on a malformed file
Material_load(st, filepath) ==
    LET k == FreshId(st)
    IN  IF st.disk[filepath] = Malformed
        THEN [obj |-> 0, st |-> [st EXCEPT !.exc = TRUE]]
        ELSE [obj |-> k,
              st  |-> [st EXCEPT !.heap = (k :> [filepath |-> filepath, filename |-> filepath[2], data |-> k]) @@ @,
                                 !.store = (k :> st.disk[filepath]) @@ @]]

\* copy.copy(material) : a new object that refers to the same data dict
deepcopy_MutShallow(st, m) ==
    LET k == FreshId(st)
    IN  [obj |-> k, st |-> [st EXCEPT !.heap = (k :> st.heap[m]) @@ @]]

\* copy.deepcopy(material) : a new object with its own copy of the data
deepcopy(st, m) ==
    LET k == FreshId(st)
    IN  [obj |-> k,
         st  |-> [st EXCEPT !.heap = (k :> [st.heap[m] EXCEPT !.data = k]) @@ @,
                            !.store = (k :> DataOf(st, m)) @@ @]]

\* datetime.now() as Material.save and log_changes read it
Now(st) == Str("t" \o ToString(st.clock))

\* the stamp Material.save puts on a property that has a property_name
Stamp(prop, now) ==
    IF IsDict(prop) /\ HasKey(prop, "property_name")
    THEN UpdKey(prop, "property_last_updated", now) ELSE prop

\* Material.save: the data with every named property stamped
StampAll(data, now) ==
    LET phys == Get(data, "physical_properties", EmptyDict)
        d1 == IF HasKey(data, "physical_properties")
              THEN UpdKey(data, "physical_properties",
                          Dict([key \in DOMAIN phys.d |-> Stamp(phys.d[key], now)]))
              ELSE data
        mech == Get(d1, "mechanical_properties", EmptyDict)
        cats == Get(mech, "strength_category", EmptyList).l
        StampCat(cat) == Dict([key \in DOMAIN cat.d |-> Stamp(cat.d[key], now)])
    IN  IF HasKey(mech, "strength_category")
        THEN UpdKey(d1, "mechanical_properties",
                    UpdKey(mech, "strength_category",
                           List([i \in 1..Len(cats) |-> StampCat(cats[i])])))
        ELSE d1

\* Material.save(filepath); outcome is what open/json.dump do:
\* "ok" | "open_fails" (nothing written) | "dump_fails" (the file is left truncated)
Material_save(st, m, filepath, outcome) ==
    LET save_path == IF filepath # NoPath THEN filepath ELSE st.heap[m].filepath
        st1 == [st EXCEPT !.heap[m].filepath = save_path,
                          !.heap[m].filename = save_path[2]]
        st2 == SetData(st1, m, StampAll(DataOf(st1, m), Now(st1)))
    IN  IF save_path = NoPath THEN [st EXCEPT !.exc = TRUE]
        ELSE CASE outcome = "ok" ->
                    [st2 EXCEPT !.disk = (save_path :> DataOf(st2, m)) @@ @]
               [] outcome = "open_fails" ->
                    [st2 EXCEPT !.exc = TRUE]
               [] outcome = "dump_fails" ->
                    [st2 EXCEPT !.disk = (save_path :> Malformed) @@ @, !.exc = TRUE]

\* ---- AppData ----

JsonNames == {"a.json", "b.json", "bad.json", "list.json", "new.json"}
\* filename.endswith('.json')
IsJsonName(filename) == filename \in JsonNames

\* os.listdir(directory), in any order
Listings(st, directory) ==
    LET names == {p[2] : p \in {q \in DOMAIN st.disk : q[1] = directory}}
    IN  {order \in [1..Cardinality(names) -> names] :
            \A i, j \in 1..Cardinality(names) : i # j => order[i] # order[j]}

RECURSIVE load_files(_, _, _, _)
\* the loop of load_materials_from_dir: a file that does not load is skipped
load_files(st, directory, order, i) ==
    IF i > Len(order) THEN st
    ELSE IF ~IsJsonName(order[i]) THEN load_files(st, directory, order, i + 1)
    ELSE LET r == Material_load(st, <<directory, order[i]>>)
         IN  IF r.st.exc THEN load_files(st, directory, order, i + 1)
             ELSE load_files([r.st EXCEPT !.materials = Append(@, r.obj)],
                             directory, order, i + 1)

RECURSIVE InsertByName(_, _, _)
\* insert m after every object whose display name is not greater (stable)
InsertByName(st, sorted, m) ==
    IF sorted = <<>> THEN <<m>>
    ELSE IF StrRank(DisplayName(st, m)) < StrRank(DisplayName(st, Head(sorted)))
         THEN <<m>> \o sorted
         ELSE <<Head(sorted)>> \o InsertByName(st, Tail(sorted), m)

RECURSIVE sort_by_display_name(_, _, _)
\* the stable sort of ms[1..i] by display name
sort_by_display_name(st, ms, i) ==
    IF i = 0 THEN <<>>
    ELSE InsertByName(st, sort_by_display_name(st, ms, i - 1), ms[i])

\* the application_area list of a record, as a set of strings
AreasOf(data) ==
    LET areas == Get(Get(data, "metadata", EmptyDict), "application_area", EmptyList).l
    IN  {areas[i].s : i \in 1..Len(areas)}

\* AppData.load_application_areas()
load_application_areas(st) ==
    IF st.exc THEN st
    ELSE [st EXCEPT !.application_areas =
        sorted_strings(UNION {AreasOf(DataOf(st, st.materials[i])) : i \in 1..Len(st.materials)})]

\* the catalog: the objects of the materials list with what they hold
CatalogImage(st) ==
    [i \in 1..Len(st.materials) |->
        [filepath |-> st.heap[st.materials[i]].filepath,
         filename |-> st.heap[st.materials[i]].filename,
         data |-> DataOf(st, st.materials[i])]]

\* self.materials.sort(key=lambda m: m.get_display_name()); when a key raises,
\* list.sort raises and leaves the list as it was
sort_materials(st) ==
    IF HasNoGet(st) THEN [st EXCEPT !.exc = TRUE]
    ELSE [st EXCEPT !.materials = sort_by_display_name(st, st.materials, Len(st.materials))]

\* the catalog as a directory load leaves it
taken(st) == [st EXCEPT !.snapshot = CatalogImage(st)]

\* AppData.load_materials_from_dir(directory); order is what os.listdir returned
load_materials_from_dir(st, directory, order) ==
    taken(load_application_areas(sort_materials(
        load_files(Collect([st EXCEPT !.work_dir = directory, !.materials = <<>>]),
                   directory, order, 1))))

\* ---- log_changes ----

RECURSIVE log_headers_MutEveryTime(_, _, _)
\* headers written for every change, whether printed before or not
log_headers_MutEveryTime(path, printed, i) ==
    IF i > Len(path) - 1 THEN [lines |-> <<>>, printed |-> printed]
    ELSE [lines |-> <<[kind |-> "header", depth |-> i, name |-> path[i]]>>
                    \o log_headers_MutEveryTime(path, printed, i + 1).lines,
          printed |-> printed]

RECURSIVE log_headers(_, _, _)
\* the header lines of one change: one for every prefix of the path not printed yet
log_headers(path, printed, i) ==
    IF i > Len(path) - 1 THEN [lines |-> <<>>, printed |-> printed]
    ELSE LET prefix == SubSeq(path, 1, i)
             rest == log_headers(path, printed \cup {prefix}, i + 1)
         IN  IF prefix \in printed THEN rest
             ELSE [lines |-> <<[kind |-> "header", depth |-> i, name |-> path[i]]>> \o rest.lines,
                   printed |-> rest.printed]

RECURSIVE log_lines(_, _, _)
\* the loop over changes_list; an element that is not a change record raises
log_lines(changes_list, printed, i) ==
    IF i > Len(changes_list) THEN [lines |-> <<>>, raised |-> FALSE]
    ELSE IF "path" \notin DOMAIN changes_list[i] THEN [lines |-> <<>>, raised |-> TRUE]
    ELSE LET change == changes_list[i]
             heads == log_headers(change.path, printed, 1)
             line == [kind |-> "change", depth |-> Len(change.path),
                      leaf |-> change.path[Len(change.path)], change |-> change]
             rest == log_lines(changes_list, heads.printed, i + 1)
         IN  [lines |-> heads.lines \o <<line>> \o rest.lines, raised |-> rest.raised]

\* the lines written before the changes (lines 440-444)
log_head(st, material_name) ==
    <<[kind |-> "rule"], [kind |-> "time", at |-> Now(st)], [kind |-> "user"],
      [kind |-> "material", name |-> material_name], [kind |-> "title"]>>

\* the try block (lines 438-482) when the file opens and the header is written
write_log(st, material_name, body) ==
    [st EXCEPT !.ledger = @ \o log_head(st, material_name) \o body.lines
                            \o (IF body.raised THEN <<>> ELSE <<[kind |-> "blank"]>>)]

\* a log writer that writes the header of an empty change list
log_changes_MutNoGuard(st, material_name, changes_list) ==
    IF st.log_outcome = "denied" THEN st
    ELSE write_log(st, material_name, log_lines(changes_list, {}, 1))

\* a log writer that lets the failure of open() or write() out
log_changes_MutRaises(st, material_name, changes_list) ==
    IF changes_list = <<>> THEN st
    ELSE IF st.log_outcome = "denied" THEN [st EXCEPT !.exc = TRUE]
    ELSE write_log(st, material_name, log_lines(changes_list, {}, 1))

\* log_changes(material_name, changes_list); st.log_outcome tells whether the log
\* file opens ("denied": open() raises); the except clause prints and returns
log_changes(st, material_name, changes_list) ==
    IF changes_list = <<>> THEN st
    ELSE IF st.log_outcome = "denied" THEN st
    ELSE write_log(st, material_name, log_lines(changes_list, {}, 1))

\* ---- widgets ----

\* ttk.Combobox: current() is the stored index while the text still is the value
\* at that index, else the first value equal to the text, else -1
combo_current(c) ==
    IF c.index \in 1..Len(c.values) /\ c.values[c.index] = c.text THEN c.index
    ELSE IF \E i \in 1..Len(c.values) : c.values[i] = c.text
         THEN CHOOSE i \in 1..Len(c.values) :
                 c.values[i] = c.text /\ \A j \in 1..(i - 1) : c.values[j] # c.text
         ELSE 0

\* combo.current(i)
combo_select(c, i) ==
    IF i \in 1..Len(c.values) THEN [c EXCEPT !.text = c.values[i], !.index = i]
    ELSE CHOOSE q \in {} : TRUE

\* the entries and the table of one property (_create_prop_fields), filled from prop_data
prop_fields(prop_data) ==
    LET pairs == Get(prop_data, "temperature_value_pairs", EmptyList).l
    IN  [source    |-> Get(prop_data, "property_source", Str("")).s,
         subsource |-> Get(prop_data, "property_subsource", Str("")).s,
         comment   |-> Get(prop_data, "comment", Str("")).s,
         tree      |-> [i \in 1..Len(pairs) |-> <<tk_text(pairs[i].l[1]), tk_text(pairs[i].l[2])>>]]

\* the rows of a property table whose two cells are numbers
tree_pairs(tree) ==
    LET IsPair(row) == ParseFloat(row[1]) # ValueError /\ ParseFloat(row[2]) # ValueError
        rows == SelectSeq(tree, IsPair)
    IN  [i \in 1..Len(rows) |-> List(<<ParseFloat(rows[i][1]), ParseFloat(rows[i][2])>>)]

PHYSICAL_PROPERTIES_MAP == [density |-> [name |-> "Plotnost", unit |-> "kg/m3"]]
MECHANICAL_PROPERTIES_MAP == [yield_strength |-> [name |-> "Predel tekuchesti", unit |-> "MPa"]]

\* a property written for the first time gets its name and unit from the map
with_property_name(prop_data, prop_info) ==
    IF HasKey(prop_data, "property_name") THEN prop_data
    ELSE UpdKey(UpdKey(prop_data, "property_name", Str(prop_info.name)),
                "property_unit", Str(prop_info.unit))

\* what collect_data / _save_current_category do with one property of group
collect_prop(group, prop_key, w, prop_info) ==
    IF tree_pairs(w.tree) # <<>> \/ w.source # "" \/ w.subsource # "" \/ w.comment # ""
    THEN UpdKey(group, prop_key,
                with_property_name(
                    UpdKey(UpdKey(UpdKey(UpdKey(Get(group, prop_key, EmptyDict),
                        "property_source", Str(w.source)),
                        "property_subsource", Str(w.subsource)),
                        "comment", Str(w.comment)),
                        "temperature_value_pairs", List(tree_pairs(w.tree))),
                    prop_info))
    ELSE IF HasKey(group, prop_key) THEN DelKey(group, prop_key)
    ELSE group

\* ---- GeneralDataTab ----

\* GeneralDataTab.populate_form(material); inserting None into an entry raises TclError
GeneralDataTab_populate_form(st, m) ==
    LET data == DataOf(st, m)
        meta == Get(data, "metadata", EmptyDict)
        alt_names_list == Get(meta, "name_material_alternative", EmptyList).l
        cls == Get(meta, "classification", EmptyDict)
        all_known_areas ==
            UNION {AreasOf(DataOf(st, st.materials[i])) : i \in 1..Len(st.materials)}
            \cup AreasOf(data)
        sorted_areas == sorted_strings(all_known_areas)
        temp_app_data == Get(meta, "temperature_application", EmptyDict)
        value == Get(temp_app_data, "value", Str(""))
        g1 == [st.general_tab EXCEPT
                 !.name_entry = Get(meta, "name_material_standard", Str("")).s,
                 !.alt_names_entry = join([i \in 1..Len(alt_names_list) |-> alt_names_list[i].s], 1),
                 !.comment_entry = Get(meta, "comment", Str("")).s,
                 !.cat_entry = Get(cls, "classification_category", Str("")).s,
                 !.class_entry = Get(cls, "classification_class", Str("")).s,
                 !.subclass_entry = Get(cls, "classification_subclass", Str("")).s,
                 !.area_widgets = [i \in 1..Len(sorted_areas) |->
                                     [area |-> sorted_areas[i],
                                      var |-> sorted_areas[i] \in AreasOf(data)]],
                 !.temp_app_value_entry = IF value = Null THEN "" ELSE tk_text(value)]
    IN  IF HasNoGet(st)
        THEN \* line 2280 raises: the entries above it are filled, the check boxes are gone
             [st EXCEPT !.general_tab =
                 [g1 EXCEPT !.area_widgets = <<>>,
                            !.temp_app_value_entry = st.general_tab.temp_app_value_entry],
                        !.exc = TRUE]
        ELSE IF value = Null
        THEN [st EXCEPT !.general_tab = g1, !.exc = TRUE]
        ELSE [st EXCEPT !.general_tab =
                [g1 EXCEPT !.temp_app_comment_entry = Get(temp_app_data, "comment", Str("")).s]]

\* GeneralDataTab._add_new_area()
_add_new_area(st) ==
    LET g == st.general_tab
        new_area == Strip(g.new_area_entry)
    IN  IF new_area = "" THEN st
        ELSE IF \E i \in 1..Len(g.area_widgets) : g.area_widgets[i].area = new_area THEN st
        ELSE [st EXCEPT !.general_tab.area_widgets = Append(@, [area |-> new_area, var |-> TRUE]),
                        !.general_tab.new_area_entry = ""]

\* GeneralDataTab.collect_data(material)
GeneralDataTab_collect_data(st, m) ==
    LET g == st.general_tab
        data == DataOf(st, m)
        meta == data.d["metadata"]
        names == split_names(g.alt_names_entry)
        cls == UpdKey(UpdKey(UpdKey(meta.d["classification"],
                   "classification_category", Str(g.cat_entry)),
                   "classification_class", Str(g.class_entry)),
                   "classification_subclass", Str(g.subclass_entry))
        Checked(w) == w.var
        checked == SelectSeq(g.area_widgets, Checked)
        selected_areas == [i \in 1..Len(checked) |-> Str(checked[i].area)]
        meta1 == UpdKey(UpdKey(UpdKey(UpdKey(UpdKey(meta,
                   "name_material_standard", Str(g.name_entry)),
                   "name_material_alternative", List([i \in 1..Len(names) |-> Str(names[i])])),
                   "comment", Str(Strip(g.comment_entry))),
                   "classification", cls),
                   "application_area", List(selected_areas))
        temp_val_str == Strip(g.temp_app_value_entry)
        temp_comment_str == Strip(g.temp_app_comment_entry)
        temp_val == IF temp_val_str # "" /\ ParseFloat(temp_val_str) # ValueError
                    THEN ParseFloat(temp_val_str) ELSE Null
        temp_app_data == UpdKey(UpdKey(Get(meta1, "temperature_application", EmptyDict),
                                       "value", temp_val),
                                "comment", Str(temp_comment_str))
        meta2 == IF temp_val # Null \/ temp_comment_str # ""
                 THEN UpdKey(meta1, "temperature_application", temp_app_data)
                 ELSE IF HasKey(meta1, "temperature_application")
                      THEN DelKey(meta1, "temperature_application")
                      ELSE meta1
    IN  SetData(st, m, UpdKey(data, "metadata", meta2))

\* ---- PropertyEditorTab (physical_properties) ----

\* PropertyEditorTab.populate_form(material)
PropertyEditorTab_populate_form(st, m) ==
    LET prop_group == Get(DataOf(st, m), "physical_properties", EmptyDict)
    IN  IF st.exc THEN st
        ELSE [st EXCEPT !.phys_tab =
                [prop_key \in PHYSICAL_KEYS |-> prop_fields(Get(prop_group, prop_key, EmptyDict))]]

RECURSIVE collect_props(_, _, _, _)
\* the loop over prop_widgets; keys is the set of properties not visited yet
collect_props(group, widgets, prop_map, keys) ==
    IF keys = {} THEN group
    ELSE LET prop_key == CHOOSE key \in keys : TRUE
         IN  collect_props(collect_prop(group, prop_key, widgets[prop_key], prop_map[prop_key]),
                           widgets, prop_map, keys \ {prop_key})

\* PropertyEditorTab.collect_data(material)
PropertyEditorTab_collect_data(st, m) ==
    LET data == DataOf(st, m)
        prop_group == Get(data, "physical_properties", EmptyDict)
    IN  SetData(st, m, UpdKey(data, "physical_properties",
                              collect_props(prop_group, st.phys_tab, PHYSICAL_PROPERTIES_MAP,
                                            PHYSICAL_KEYS)))

\* ---- MechanicalPropertiesTab ----

StrengthCategories(data) ==
    Get(Get(data, "mechanical_properties", EmptyDict), "strength_category", EmptyList).l

\* MechanicalPropertiesTab._populate_category_fields(category_data)
_populate_category_fields(mt, category_data) ==
    LET hardness == Get(category_data, "hardness", EmptyList).l
        Cell(h_data, key) == tk_text(Get(h_data, key, Str("")))
    IN  [mt EXCEPT
           !.category_name_entry = Get(category_data, "value_strength_category", Str("")).s,
           !.prop_widgets = [prop_key \in MECHANICAL_KEYS |->
                                prop_fields(Get(category_data, prop_key, EmptyDict))],
           !.hardness_tree = [i \in 1..Len(hardness) |->
                                 <<Cell(hardness[i], "property_source"),
                                   Cell(hardness[i], "property_subsource"),
                                   Cell(hardness[i], "min_value"),
                                   Cell(hardness[i], "max_value"),
                                   Cell(hardness[i], "unit_value")>>]]

\* one row of the hardness table as _save_current_category reads it
hardness_row(v) ==
    LET Bound(text) == IF text # "" /\ ParseFloat(text) # ValueError
                       THEN ParseFloat(text) ELSE Null
    IN  Dict([property_source |-> Str(v[1]), property_subsource |-> Str(v[2]),
              unit_value |-> Str(v[5]),
              min_value |-> Bound(v[3]), max_value |-> Bound(v[4])])

\* the rows of the hardness table that say something
hardness_list(tree) ==
    LET Kept(h_data) == \/ h_data.d["property_source"].s # ""
                        \/ h_data.d["property_subsource"].s # ""
                        \/ h_data.d["min_value"] # Null
                        \/ h_data.d["max_value"] # Null
    IN  SelectSeq([i \in 1..Len(tree) |-> hardness_row(tree[i])], Kept)

\* category_data with the name, the properties and the hardness the widgets show
category_of_widgets(mt, category_data) ==
    UpdKey(collect_props(UpdKey(category_data, "value_strength_category",
                                Str(mt.category_name_entry)),
                         mt.prop_widgets, MECHANICAL_PROPERTIES_MAP, MECHANICAL_KEYS),
           "hardness", List(hardness_list(mt.hardness_tree)))

\* MechanicalPropertiesTab._save_current_category()
_save_current_category(st) ==
    LET mt == st.mech_tab
        idx == mt.current_category_idx
        data == DataOf(st, mt.material)
        categories == data.d["mechanical_properties"].d["strength_category"].l
    IN  IF mt.material = 0 \/ idx = 0 THEN st
        ELSE IF ~HasKey(data, "mechanical_properties") THEN st
        ELSE IF ~HasKey(data.d["mechanical_properties"], "strength_category") THEN st
        ELSE IF idx > Len(categories) THEN st
        ELSE IF idx > Len(mt.category_combo.values)
             THEN [SetData(st, mt.material,
                           SetIn(data, <<"mechanical_properties", "strength_category">>,
                                 List([categories EXCEPT ![idx] =
                                          UpdKey(@, "value_strength_category",
                                                 Str(mt.category_name_entry))])))
                   EXCEPT !.exc = TRUE]
        ELSE [SetData(st, mt.material,
                      SetIn(data, <<"mechanical_properties", "strength_category">>,
                            List([categories EXCEPT ![idx] = category_of_widgets(mt, @)])))
              EXCEPT !.mech_tab.category_combo.values[idx] = mt.category_name_entry]

\* _on_category_select once the previous category is saved: the category at
\* new_idx goes on display
show_category(st, new_idx) ==
    IF st.exc THEN st
    ELSE IF new_idx > Len(StrengthCategories(DataOf(st, st.mech_tab.material)))
         THEN [st EXCEPT !.mech_tab.current_category_idx = new_idx, !.exc = TRUE]
    ELSE [st EXCEPT !.mech_tab =
             [_populate_category_fields(
                  [@ EXCEPT !.current_category_idx = new_idx],
                  StrengthCategories(DataOf(st, st.mech_tab.material))[new_idx])
              EXCEPT !.shown = TRUE]]

\* MechanicalPropertiesTab._on_category_select()
_on_category_select(st) ==
    LET new_idx == combo_current(st.mech_tab.category_combo)
        old_idx == st.mech_tab.current_category_idx
        st0 == [st EXCEPT !.mech_tab.category_combo.index = new_idx]
    IN  IF new_idx = 0 THEN st0
        ELSE show_category(IF old_idx # 0 /\ old_idx # new_idx
                           THEN _save_current_category(st0) ELSE st0,
                           new_idx)

\* populate_form once the category of the previous material is saved
list_categories(st, m) ==
    LET categories == StrengthCategories(DataOf(st, m))
        category_names ==
            [i \in 1..Len(categories) |->
                IF HasKey(categories[i], "value_strength_category")
                THEN categories[i].d["value_strength_category"].s
                ELSE "Kategoriya " \o ToString(i)]
        st2 == [st EXCEPT !.mech_tab.material = m,
                          !.mech_tab.current_category_idx = 0,
                          !.mech_tab.category_combo.values = category_names]
    IN  IF st.exc THEN st
        ELSE IF categories # <<>>
        THEN _on_category_select([st2 EXCEPT !.mech_tab.shown = TRUE,
                                             !.mech_tab.category_combo = combo_select(@, 1)])
        ELSE [st2 EXCEPT !.mech_tab.category_combo.text = "", !.mech_tab.shown = FALSE]

\* MechanicalPropertiesTab.populate_form(material)
MechanicalPropertiesTab_populate_form(st, m) ==
    IF st.exc THEN st
    ELSE list_categories(IF st.mech_tab.material # 0 /\ st.mech_tab.material # m
                         THEN _save_current_category(st) ELSE st,
                         m)

\* _add_category once the category on display is saved
append_category(st) ==
    LET m == st.mech_tab.material
        new_category_name ==
            "Novaya kategoriya " \o ToString(Len(st.mech_tab.category_combo.values) + 1)
        new_category == Dict([value_strength_category |-> Str(new_category_name),
                              hardness |-> EmptyList])
        data == DataOf(st, m)
        data1 == IF HasKey(data, "mechanical_properties") THEN data
                 ELSE UpdKey(data, "mechanical_properties", Dict([strength_category |-> EmptyList]))
        categories == Append(data1.d["mechanical_properties"].d["strength_category"].l, new_category)
    IN  IF st.exc THEN st
        ELSE _on_category_select(
                 [SetData(st, m, SetIn(data1, <<"mechanical_properties", "strength_category">>,
                                       List(categories)))
                  EXCEPT !.mech_tab.category_combo =
                            combo_select([@ EXCEPT !.values = Append(@, new_category_name)],
                                         Len(categories))])

\* MechanicalPropertiesTab._add_category()
_add_category(st) ==
    IF st.mech_tab.material = 0 THEN st
    ELSE append_category(_save_current_category(st))

\* MechanicalPropertiesTab._delete_category(), the user confirms
_delete_category(st) ==
    LET mt == st.mech_tab
        data == DataOf(st, mt.material)
        categories == data.d["mechanical_properties"].d["strength_category"].l
        st1 == SetData(st, mt.material,
                       SetIn(data, <<"mechanical_properties", "strength_category">>,
                             List(RemoveAt(categories, mt.current_category_idx))))
    IN  IF mt.material = 0 \/ mt.current_category_idx = 0 THEN st
        ELSE IF mt.current_category_idx > Len(categories) THEN [st EXCEPT !.exc = TRUE]
        ELSE MechanicalPropertiesTab_populate_form(
                 [st1 EXCEPT !.mech_tab.current_category_idx = 0], mt.material)

\* MechanicalPropertiesTab.collect_data(material)
MechanicalPropertiesTab_collect_data(st, m) ==
    IF st.mech_tab.material = m THEN _save_current_category(st) ELSE st

\* ---- ChemicalCompositionTab ----

Compositions(data) ==
    Get(Get(data, "chemical_properties", EmptyDict), "composition", EmptyList).l

\* ChemicalCompositionTab._populate_source_fields(comp_data)
_populate_source_fields(ct, comp_data) ==
    LET elems == Get(comp_data, "other_elements", EmptyList).l
        Cell(elem, key, default) == tk_text(Get(elem, key, Str(default)))
    IN  [ct EXCEPT
           !.source_entry = Get(comp_data, "composition_source", Str("")).s,
           !.subsource_entry = Get(comp_data, "composition_subsource", Str("")).s,
           !.comment_entry = Get(comp_data, "comment", Str("")).s,
           !.base_element_entry = Get(comp_data, "base_element", Str("")).s,
           !.elements_tree = [i \in 1..Len(elems) |->
                                 <<Cell(elems[i], "element", ""),
                                   Cell(elems[i], "min_value", ""),
                                   Cell(elems[i], "max_value", ""),
                                   Cell(elems[i], "unit_value", "%"),
                                   Cell(elems[i], "min_value_tolerance", ""),
                                   Cell(elems[i], "max_value_tolerance", "")>>]]

\* if present: elem[key] = value
with_optional(elem, key, present, value) ==
    IF present THEN UpdKey(elem, key, value) ELSE elem

\* one row of the elements table as _save_current_source reads it
element_row(values) ==
    with_optional(with_optional(with_optional(with_optional(
        Dict([element |-> Str(values[1]), unit_value |-> Str(values[4])]),
        "min_value", values[2] # "" /\ ParseFloat(values[2]) # ValueError, ParseFloat(values[2])),
        "max_value", values[3] # "" /\ ParseFloat(values[3]) # ValueError, ParseFloat(values[3])),
        "min_value_tolerance", values[5] # "", Str(values[5])),
        "max_value_tolerance", values[6] # "", Str(values[6]))

\* ChemicalCompositionTab._save_current_source()
_save_current_source(st) ==
    LET ct == st.chem_tab
        idx == ct.current_source_idx
        data == DataOf(st, ct.material)
        compositions == data.d["chemical_properties"].d["composition"].l
        HasElem(values) == values[1] # ""
        rows == SelectSeq(ct.elements_tree, HasElem)
        elements_list == [i \in 1..Len(rows) |-> element_row(rows[i])]
        comp_data == UpdKey(UpdKey(UpdKey(UpdKey(UpdKey(compositions[idx],
                        "composition_source", Str(ct.source_entry)),
                        "composition_subsource", Str(ct.subsource_entry)),
                        "comment", Str(ct.comment_entry)),
                        "base_element", Str(ct.base_element_entry)),
                        "other_elements", List(elements_list))
    IN  IF ct.material = 0 \/ idx = 0 THEN st
        ELSE IF idx > Len(compositions) THEN st
        ELSE SetData(st, ct.material,
                     SetIn(data, <<"chemical_properties", "composition">>,
                           List([compositions EXCEPT ![idx] = comp_data])))

\* _on_source_select once the source on display is saved
show_source(st) ==
    LET idx == combo_current(st.chem_tab.source_combo)
        st2 == [st EXCEPT !.chem_tab.source_combo.index = idx]
    IN  IF idx = 0 THEN [st2 EXCEPT !.chem_tab.shown = FALSE]
        ELSE IF idx > Len(Compositions(DataOf(st2, st2.chem_tab.material)))
             THEN [st2 EXCEPT !.chem_tab.current_source_idx = idx, !.exc = TRUE]
        ELSE [st2 EXCEPT !.chem_tab =
                 [_populate_source_fields(
                      [@ EXCEPT !.current_source_idx = idx],
                      Compositions(DataOf(st2, st2.chem_tab.material))[idx])
                  EXCEPT !.shown = TRUE]]

\* ChemicalCompositionTab._on_source_select()
_on_source_select(st) == show_source(_save_current_source(st))

\* populate_form once the source of the previous material is saved
list_sources(st, m) ==
    LET compositions == Compositions(DataOf(st, m))
        names == [i \in 1..Len(compositions) |->
                     IF HasKey(compositions[i], "composition_source")
                     THEN compositions[i].d["composition_source"].s
                     ELSE "Istochnik " \o ToString(i)]
        st2 == [st EXCEPT !.chem_tab.material = m,
                          !.chem_tab.current_source_idx = 0,
                          !.chem_tab.source_combo.values = names]
    IN  IF compositions # <<>>
        THEN _on_source_select([st2 EXCEPT !.chem_tab.source_combo = combo_select(@, 1)])
        ELSE [st2 EXCEPT !.chem_tab.source_combo.text = "", !.chem_tab.shown = FALSE]

\* ChemicalCompositionTab.populate_form(material)
ChemicalCompositionTab_populate_form(st, m) ==
    IF st.exc THEN st
    ELSE list_sources(IF st.chem_tab.material # 0 /\ st.chem_tab.material # m
                      THEN _save_current_source(st) ELSE st,
                      m)

\* compositions.append(new_source)
append_source(st) ==
    LET m == st.chem_tab.material
        data == DataOf(st, m)
        new_source == Dict([composition_source |-> Str("Novyi istochnik"),
                            other_elements |-> EmptyList])
    IN  SetData(st, m, SetIn(data, <<"chemical_properties", "composition">>,
                             List(Append(data.d["chemical_properties"].d["composition"].l,
                                         new_source))))

\* source_combo.current(len(compositions) - 1); _on_source_select()
select_last_source(st) ==
    IF st.exc THEN st
    ELSE _on_source_select(
             [st EXCEPT !.chem_tab.source_combo =
                 combo_select(@, Len(Compositions(DataOf(st, st.chem_tab.material))))])

\* ChemicalCompositionTab._add_source()
_add_source(st) ==
    IF st.chem_tab.material = 0 THEN st
    ELSE select_last_source(
             ChemicalCompositionTab_populate_form(append_source(_save_current_source(st)),
                                                  st.chem_tab.material))

\* ChemicalCompositionTab._delete_source(), the user confirms
_delete_source(st) ==
    LET ct == st.chem_tab
        data == DataOf(st, ct.material)
        compositions == data.d["chemical_properties"].d["composition"].l
        st1 == SetData(st, ct.material,
                       SetIn(data, <<"chemical_properties", "composition">>,
                             List(RemoveAt(compositions, ct.current_source_idx))))
    IN  IF ct.material = 0 \/ ct.current_source_idx = 0 THEN st
        ELSE IF ct.current_source_idx > Len(compositions) THEN [st EXCEPT !.exc = TRUE]
        ELSE ChemicalCompositionTab_populate_form(
                 [st1 EXCEPT !.chem_tab.source_combo.text = ""], ct.material)

\* ChemicalCompositionTab.collect_data(material)
ChemicalCompositionTab_collect_data(st, m) ==
    IF st.exc THEN st
    ELSE [_save_current_source(st) EXCEPT !.chem_tab.material = m]

\* ---- EditorFrame ----

\* EditorFrame._populate_all_tabs()
_populate_all_tabs(st) ==
    IF st.editing_copy = 0 THEN st
    ELSE ChemicalCompositionTab_populate_form(
             MechanicalPropertiesTab_populate_form(
                 PropertyEditorTab_populate_form(
                     GeneralDataTab_populate_form(st, st.editing_copy),
                     st.editing_copy),
                 st.editing_copy),
             st.editing_copy)

\* EditorFrame.collect_data()
EditorFrame_collect_data(st) ==
    IF st.editing_copy = 0 THEN st
    ELSE ChemicalCompositionTab_collect_data(
             MechanicalPropertiesTab_collect_data(
                 PropertyEditorTab_collect_data(
                     GeneralDataTab_collect_data(st, st.editing_copy),
                     st.editing_copy),
                 st.editing_copy),
             st.editing_copy)

\* EditorFrame.update_view()
update_view(st) ==
    LET mat_names == [i \in 1..Len(st.materials) |-> DisplayName(st, st.materials[i])]
        st1 == [st EXCEPT !.mat_combo.values = mat_names]
    IN  IF st.editing_copy # 0
           /\ \E i \in 1..Len(mat_names) : mat_names[i] = DisplayName(st, st.editing_copy)
        THEN [st1 EXCEPT !.mat_combo.text = DisplayName(st, st.editing_copy)]
        ELSE [st1 EXCEPT !.editing_copy = 0,
                         !.current_material = 0,
                         !.mat_combo.text = "",
                         !.tabs_state = "disabled",
                         !.buttons_state = "disabled"]

\* next((m for m in materials if m.get_display_name() == selected_name), None)
find_material(st, selected_name) ==
    LET found == {i \in 1..Len(st.materials) :
                     /\ ~NoGet(st, st.materials[i])
                     /\ DisplayName(st, st.materials[i]) = selected_name}
    IN  IF found = {} THEN 0
        ELSE st.materials[CHOOSE i \in found : \A j \in found : i <= j]

\* the search raises: it comes to an object without get() before it finds the name
find_raises(st, selected_name) ==
    \E i \in 1..Len(st.materials) :
        /\ NoGet(st, st.materials[i])
        /\ \A j \in 1..(i - 1) :
              NoGet(st, st.materials[j]) \/ DisplayName(st, st.materials[j]) # selected_name

\* self.editing_copy = the new object
edit_copy(made) == [made.st EXCEPT !.editing_copy = made.obj]

\* _set_tabs_state("normal"); _update_button_states(True)
enable_editor(st) ==
    IF st.exc THEN st
    ELSE [st EXCEPT !.tabs_state = "normal", !.buttons_state = "normal"]

\* EditorFrame.load_material()
load_material(st) ==
    IF find_raises(st, st.mat_combo.text) THEN [st EXCEPT !.exc = TRUE]
    ELSE IF find_material(st, st.mat_combo.text) = 0 THEN st
    ELSE enable_editor(_populate_all_tabs(edit_copy(
             deepcopy([st EXCEPT !.current_material = find_material(st, st.mat_combo.text)],
                      find_material(st, st.mat_combo.text)))))

\* the new object is the editing copy, there is no original
edit_new(made) ==
    [made.st EXCEPT !.editing_copy = made.obj,
                    !.current_material = 0,
                    !.mat_combo.text = made.st.heap[made.obj].filename]

\* EditorFrame.create_new_material()
create_new_material(st, uuid) ==
    enable_editor(_populate_all_tabs(edit_new(Material_empty(st, uuid))))

\* ---- MainApplication ----

\* MainApplication.on_data_load()
on_data_load(st) ==
    IF st.exc THEN st
    ELSE update_view([st EXCEPT !.editing_copy = 0, !.current_material = 0])

\* messagebox.showinfo, if asked for
showinfo(st, show) == IF show /\ ~st.exc THEN [st EXCEPT !.message = "info"] ELSE st

\* the except clause of open_directory (lines 3340-3341)
load_failed(st) ==
    IF st.exc THEN [st EXCEPT !.exc = FALSE, !.message = "error"] ELSE st

\* MainApplication.open_directory(directory, show_success_message)
open_directory(st, directory, order, show_success_message) ==
    load_failed(on_data_load(showinfo(load_materials_from_dir(st, directory, order),
                                      show_success_message)))

\* ---- saving ----
\* A save handler ends with open_directory(work_dir) when the file was written;
\* the operators below stop there and set reload, the action completes the handler
\* with what os.listdir returns then.

NEW_MATERIAL_NOTE == Str("Sozdan novyi material so sleduyushchimi dannymi:")

\* a handler that reloads whether or not the write raised
report_save_MutReloadAlways(st) ==
    [st EXCEPT !.exc = FALSE, !.message = IF st.exc THEN "error" ELSE "info", !.reload = TRUE]

\* the end of the try block of a save handler: showinfo and the reload, or showerror
report_save(st) ==
    IF st.exc THEN [st EXCEPT !.exc = FALSE, !.message = "error"]
    ELSE [st EXCEPT !.message = "info", !.reload = TRUE]

\* save_material_as after collect_data: the log of the difference to the original,
\* or to an empty record
log_save_as(st) ==
    IF st.exc THEN st
    ELSE IF st.current_material # 0
    THEN log_changes(st,
             DisplayName(st, st.editing_copy) \o " (sokhranen iz "
                 \o DisplayName(st, st.current_material) \o ")",
             find_changes(DataOf(st, st.current_material), DataOf(st, st.editing_copy)))
    ELSE log_changes(st, DisplayName(st, st.editing_copy),
             <<NEW_MATERIAL_NOTE>>
                 \o find_changes(get_empty_structure("u0"), DataOf(st, st.editing_copy)))

\* save_material_as after the log: the file dialog and the write
ask_and_save(st, new_filepath, outcome) ==
    IF st.exc \/ new_filepath = NoPath THEN st
    ELSE report_save(Material_save([st EXCEPT !.work_dir = new_filepath[1]],
                                   st.editing_copy, new_filepath, outcome))

\* EditorFrame.save_material_as(); new_filepath is what the file dialog returned
save_material_as(st, new_filepath, outcome) ==
    IF st.editing_copy = 0 THEN st
    ELSE ask_and_save(log_save_as(EditorFrame_collect_data(st)), new_filepath, outcome)

\* save_material after collect_data: the log of the difference to the original
log_save(st) ==
    IF st.exc \/ st.current_material = 0 THEN st
    ELSE log_changes(st, DisplayName(st, st.editing_copy),
             find_changes(DataOf(st, st.current_material), DataOf(st, st.editing_copy)))

\* save_material after the log: save-as for a record without a file, else the write
save_or_ask(st, new_filepath, outcome) ==
    IF st.exc THEN st
    ELSE IF st.heap[st.editing_copy].filepath = NoPath
         THEN save_material_as(st, new_filepath, outcome)
    ELSE report_save(Material_save(st, st.editing_copy, NoPath, outcome))

\* EditorFrame.save_material()
save_material(st, new_filepath, outcome) ==
    IF st.editing_copy = 0 THEN st
    ELSE save_or_ask(log_save(EditorFrame_collect_data(st)), new_filepath, outcome)

\* EditorFrame.revert_changes(), the user confirms
revert_changes(st, uuid) ==
    IF st.editing_copy = 0 THEN st
    ELSE IF st.current_material = 0 THEN create_new_material(st, uuid)
    ELSE load_material(st)

----------------------------------------------------------------------------
(***************************************************************************)
(* The editor as a state machine: the files on disk, and one action per    *)
(* user operation.                                                         *)
(***************************************************************************)

\* a property series in the on-disk format
StoredSeries(name, unit, t, v) ==
    Dict([property_name |-> Str(name), property_unit |-> Str(unit),
          property_source |-> Str("GOST"), property_subsource |-> Str(""),
          comment |-> Str(""),
          temperature_value_pairs |-> List(<<Pair(t, v)>>),
          property_last_updated |-> Str("t0")])

StoredMetadata(name, alts, areas) ==
    Dict([name_material_standard |-> Str(name),
          name_material_alternative |-> List(alts),
          application_area |-> List(areas),
          comment |-> Str(""),
          classification |-> Dict([classification_category |-> Str(""),
                                    classification_class |-> Str(""),
                                    classification_subclass |-> Str("")])])

\* a.json: every section filled; the areas are not in alphabetical order
RecordA ==
    Dict([material_id |-> Str("id1"),
          metadata |-> UpdKey(StoredMetadata("Steel-A", <<Str("A1")>>, <<Str("pipes"), Str("boilers")>>),
                              "temperature_application",
                              Dict([value |-> Num(450), comment |-> Str("")])),
          physical_properties |-> Dict([density |-> StoredSeries("Plotnost", "kg/m3", 20, 7850)]),
          mechanical_properties |-> Dict([strength_category |-> List(<<
              Dict([value_strength_category |-> Str("KP1"),
                    yield_strength |-> StoredSeries("Predel tekuchesti", "MPa", 20, 200),
                    hardness |-> List(<<Dict([property_source |-> Str("GOST"),
                                               property_subsource |-> Str(""),
                                               unit_value |-> Str("HB"),
                                               min_value |-> Num(100),
                                               max_value |-> Null])>>)])>>)]),
          chemical_properties |-> Dict([composition |-> List(<<
              Dict([composition_source |-> Str("GOST"),
                    composition_subsource |-> Str(""),
                    comment |-> Str(""),
                    base_element |-> Str("Fe"),
                    other_elements |-> List(<<Dict([element |-> Str("Cr"),
                                                     unit_value |-> Str("%"),
                                                     min_value |-> Num(1),
                                                     max_value |-> Num(2)])>>)])>>)])])

\* b.json: nothing but metadata; with_null: the application temperature is
\* stored as {value: null, comment: "max"}
RecordB(with_null) ==
    LET meta == StoredMetadata("Steel-B", <<>>, <<Str("boilers")>>)
    IN  Dict([material_id |-> Str("id2"),
              metadata |-> IF with_null
                           THEN UpdKey(meta, "temperature_application",
                                       Dict([value |-> Null, comment |-> Str("max")]))
                           ELSE meta,
              physical_properties |-> EmptyDict,
              mechanical_properties |-> Dict([strength_category |-> EmptyList]),
              chemical_properties |-> Dict([composition |-> EmptyList])])

\* the working directory "lib", a directory "out" without records and a directory
\* "odd" with a record and a file that holds the JSON text []
InitialDisk(with_null) ==
    (<<"lib", "a.json">> :> RecordA) @@ (<<"lib", "b.json">> :> RecordB(with_null))
    @@ (<<"out", "bad.json">> :> Malformed) @@ (<<"out", "notes.txt">> :> Malformed)
    @@ (<<"odd", "a.json">> :> RecordA) @@ (<<"odd", "list.json">> :> EmptyList)

Directories == {"lib", "out", "odd"}
\* what the user may answer to the save-as dialog (NoPath: cancel)
SaveAsPaths == {NoPath, <<"lib", "new.json">>, <<"out", "new.json">>, <<"lib", "a.json">>}
\* what happens to the log file when log_changes writes to it
LogOutcomes == {"ok", "denied"}
WriteOutcomes == {"ok", "open_fails", "dump_fails"}
UUIDS == {"u1"}

\* the number of user operations a run is followed for
MaxOps == 4

EmptyPropFields == [source |-> "", subsource |-> "", comment |-> "", tree |-> <<>>]
EmptyCombo == [values |-> <<>>, text |-> "", index |-> 0]

\* the application after MainApplication.__init__
Init ==
    /\ \E with_null \in BOOLEAN : disk = InitialDisk(with_null)
    /\ ledger = <<>>
    /\ clock = 0
    /\ work_dir = ""
    /\ materials = <<>>
    /\ application_areas = <<>>
    /\ current_material = 0
    /\ heap = <<>>
    /\ store = <<>>
    /\ editing_copy = 0
    /\ mat_combo = [values |-> <<>>, text |-> ""]
    /\ tabs_state = "disabled"
    /\ buttons_state = "disabled"
    /\ general_tab = [name_entry |-> "", alt_names_entry |-> "", comment_entry |-> "",
                      cat_entry |-> "", class_entry |-> "", subclass_entry |-> "",
                      area_widgets |-> <<>>, new_area_entry |-> "",
                      temp_app_value_entry |-> "", temp_app_comment_entry |-> ""]
    /\ phys_tab = [prop_key \in PHYSICAL_KEYS |-> EmptyPropFields]
    /\ mech_tab = [material |-> 0, current_category_idx |-> 0, category_combo |-> EmptyCombo,
                   shown |-> FALSE, category_name_entry |-> "",
                   prop_widgets |-> [prop_key \in MECHANICAL_KEYS |-> EmptyPropFields],
                   hardness_tree |-> <<>>]
    /\ chem_tab = [material |-> 0, current_source_idx |-> 0, source_combo |-> EmptyCombo,
                   shown |-> FALSE, source_entry |-> "", subsource_entry |-> "",
                   comment_entry |-> "", base_element_entry |-> "", elements_tree |-> <<>>]
    /\ message = ""
    /\ eCount = 0
    /\ snapshot = <<>>
    /\ iData = Null /\ iKey = "" /\ iCat = Null /\ iSeries = <<>> /\ iPlace = "absent"
    /\ iTemp = 0 /\ iRes = Null /\ iPc = "idle"
    /\ DiffIdle
    /\ ChemIdle
    /\ UnitsIdle
    /\ RoundTripIdle

\* the application state a handler starts from
State ==
    [disk |-> disk, ledger |-> ledger, clock |-> clock, work_dir |-> work_dir,
     materials |-> materials, application_areas |-> application_areas,
     current_material |-> current_material, heap |-> heap, store |-> store,
     editing_copy |-> editing_copy, mat_combo |-> mat_combo, tabs_state |-> tabs_state,
     buttons_state |-> buttons_state, general_tab |-> general_tab, phys_tab |-> phys_tab,
     mech_tab |-> mech_tab, chem_tab |-> chem_tab, message |-> message, eCount |-> eCount,
     snapshot |-> snapshot, exc |-> FALSE, reload |-> FALSE, log_outcome |-> "ok"]

\* the application is left in state end; one more operation is done
Returns(end) ==
    /\ eCount < MaxOps
    /\ disk' = end.disk /\ ledger' = end.ledger /\ clock' = end.clock
    /\ work_dir' = end.work_dir /\ materials' = end.materials
    /\ application_areas' = end.application_areas
    /\ current_material' = end.current_material
    /\ heap' = end.heap /\ store' = end.store
    /\ editing_copy' = end.editing_copy /\ mat_combo' = end.mat_combo
    /\ tabs_state' = end.tabs_state /\ buttons_state' = end.buttons_state
    /\ general_tab' = end.general_tab /\ phys_tab' = end.phys_tab
    /\ mech_tab' = end.mech_tab /\ chem_tab' = end.chem_tab
    /\ message' = end.message /\ eCount' = eCount + 1 /\ snapshot' = end.snapshot
    /\ UNCHANGED <<ivars, dvars, cvars, uvars, rvars>>

\* the handler returns (an exception that reaches Tk is reported and dropped)
Becomes(st) == Returns(Renumber(Collect(st)))

\* the end of a save handler: open_directory(work_dir) if the file was written
Complete(st) ==
    IF st.reload
    THEN \E order \in Listings(st, st.work_dir) :
            Becomes(open_directory([st EXCEPT !.reload = FALSE], st.work_dir, order, FALSE))
    ELSE Becomes(st)

\* menu "open directory": the user picks a file in some directory
OpenDirectory ==
    \E directory \in Directories : \E order \in Listings(State, directory) :
        Becomes(open_directory(State, directory, order, TRUE))

\* the user picks a name in mat_combo
LoadMaterial ==
    \E i \in 1..Len(mat_combo.values) :
        Becomes(load_material([State EXCEPT !.mat_combo.text = mat_combo.values[i]]))

CreateNewMaterial ==
    \E uuid \in UUIDS : Becomes(create_new_material(State, uuid))

\* the answers that make a difference: a dialog opens only if the editing copy
\* has no file, and a write happens only if there is a path
DialogAnswers(asks) == IF asks THEN SaveAsPaths ELSE {NoPath}
Outcomes(writes) == IF writes THEN WriteOutcomes ELSE {"ok"}

SaveMaterial ==
    /\ buttons_state = "normal"
    /\ eCount < MaxOps
    /\ \E new_filepath \in DialogAnswers(heap[editing_copy].filepath = NoPath) :
       \E outcome \in Outcomes(heap[editing_copy].filepath # NoPath \/ new_filepath # NoPath) :
       \E log_outcome \in LogOutcomes :
          Complete(save_material([State EXCEPT !.clock = @ + 1, !.log_outcome = log_outcome],
                                 new_filepath, outcome))

SaveMaterialAs ==
    /\ buttons_state = "normal"
    /\ eCount < MaxOps
    /\ \E new_filepath \in SaveAsPaths : \E outcome \in Outcomes(new_filepath # NoPath) :
       \E log_outcome \in LogOutcomes :
          Complete(save_material_as([State EXCEPT !.clock = @ + 1, !.log_outcome = log_outcome],
                                    new_filepath, outcome))

RevertChanges ==
    /\ buttons_state = "normal"
    /\ \E uuid \in UUIDS : Becomes(revert_changes(State, uuid))

\* ---- the user works on the forms ----

\* a form operation ends; forms are reachable while the tabs are enabled
FormEdit(st) ==
    /\ tabs_state = "normal"
    /\ Becomes(st)

\* one user operation on a table: "+" appends blank, "-" deletes the selected row,
\* a double click replaces the text of one cell
TreeEdits(tree, blank, cells) ==
    {Append(tree, blank)}
    \cup {RemoveAt(tree, i) : i \in 1..Len(tree)}
    \cup {[tree EXCEPT ![i][c[1]] = c[2]] : i \in 1..Len(tree), c \in cells}

\* the user types into an entry of the general tab
EditGeneralEntry ==
    \/ \E text \in {"Steel-B"} : FormEdit([State EXCEPT !.general_tab.name_entry = text])
    \/ \E text \in {""} : FormEdit([State EXCEPT !.general_tab.alt_names_entry = text])
    \/ \E text \in {"", "hot"} :
          FormEdit([State EXCEPT !.general_tab.temp_app_value_entry = text])
    \/ \E text \in {"max"} :
          FormEdit([State EXCEPT !.general_tab.temp_app_comment_entry = text])

\* the user clicks an area checkbox
ToggleArea ==
    \E i \in 1..Len(general_tab.area_widgets) :
        FormEdit([State EXCEPT !.general_tab.area_widgets[i].var = ~@])

\* the user types an area name and presses the add button
AddNewArea ==
    \E text \in {"pipes"} :
        FormEdit(_add_new_area([State EXCEPT !.general_tab.new_area_entry = text]))

PropCells == {<<2, "hot">>}

\* the user edits the fields of a physical property
EditPhysicalProperty ==
    \E prop_key \in PHYSICAL_KEYS :
        \/ \E text \in {"TU"} :
              FormEdit([State EXCEPT !.phys_tab[prop_key].source = text])
        \/ \E tree \in TreeEdits(phys_tab[prop_key].tree, <<"0", "0">>, PropCells) :
              FormEdit([State EXCEPT !.phys_tab[prop_key].tree = tree])

\* the user picks a strength category
SelectCategory ==
    \E i \in 1..Len(mech_tab.category_combo.values) :
        FormEdit(_on_category_select(
            [State EXCEPT !.mech_tab.category_combo = combo_select(@, i)]))

AddCategory == FormEdit(_add_category(State))

DeleteCategory == FormEdit(_delete_category(State))

HardnessCells == {<<3, "hot">>}

\* the user edits the fields of the category on display
EditCategory ==
    /\ mech_tab.shown
    /\ \/ \E text \in {"KP2"} :
             FormEdit([State EXCEPT !.mech_tab.category_name_entry = text])
       \/ \E prop_key \in MECHANICAL_KEYS :
             \E tree \in TreeEdits(mech_tab.prop_widgets[prop_key].tree, <<"0", "0">>, PropCells) :
                FormEdit([State EXCEPT !.mech_tab.prop_widgets[prop_key].tree = tree])
       \/ \E tree \in TreeEdits(mech_tab.hardness_tree, <<"", "", "", "", "">>, HardnessCells) :
             FormEdit([State EXCEPT !.mech_tab.hardness_tree = tree])

\* the user picks a composition source
SelectSource ==
    \E i \in 1..Len(chem_tab.source_combo.values) :
        FormEdit(_on_source_select(
            [State EXCEPT !.chem_tab.source_combo = combo_select(@, i)]))

AddSource == FormEdit(_add_source(State))

DeleteSource == FormEdit(_delete_source(State))

ElementCells == {<<1, "">>, <<2, "hot">>}

\* the user edits the fields of the source on display
EditSource ==
    /\ chem_tab.shown
    /\ \/ \E text \in {"TU"} :
             FormEdit([State EXCEPT !.chem_tab.source_entry = text])
       \/ \E tree \in TreeEdits(chem_tab.elements_tree, <<"", "", "", "%", "", "">>, ElementCells) :
             FormEdit([State EXCEPT !.chem_tab.elements_tree = tree])

Next ==
    \/ OpenDirectory \/ LoadMaterial \/ CreateNewMaterial
    \/ SaveMaterial \/ SaveMaterialAs \/ RevertChanges
    \/ EditGeneralEntry \/ ToggleArea \/ AddNewArea \/ EditPhysicalProperty
    \/ SelectCategory \/ AddCategory \/ DeleteCategory \/ EditCategory
    \/ SelectSource \/ AddSource \/ DeleteSource \/ EditSource

Spec == Init /\ [][Next]_vars

\* ---- the catalog is not touched by the editor ----

CatalogObjects == {materials[i] : i \in 1..Len(materials)}
\* the objects the editor writes through
EditorObjects == {editing_copy, mech_tab.material, chem_tab.material} \ {0}

\* C10: whatever the editor has done (load_material, create_new_material, form
\* edits, add/delete category or source, collect_data, revert, save, save-as),
\* the catalog is what the last directory (re)load made it: every record of the
\* materials list has the path, file name and data it was loaded with, and no
\* object the editor writes through is a catalog object or refers to the data
\* dict of one.
C10_CatalogUntouched ==
    /\ CatalogImage(State) = snapshot
    /\ EditorObjects \cap CatalogObjects = {}
    /\ \A e \in EditorObjects, c \in CatalogObjects : heap[e].data # heap[c].data

\* a record was loaded into the editor, a strength category was added and the
\* forms were collected (the ledger holds the changes), the save did not go
\* through, and the edit is still in progress
C10_Witness ==
    /\ editing_copy # 0
    /\ current_material \in CatalogObjects
    /\ tabs_state = "normal"
    /\ \E i \in 1..Len(ledger) :
          /\ ledger[i].kind = "change"
          /\ ledger[i].change.type = "added"
          /\ ledger[i].leaf = "strength_category[Novaya kategoriya 2]"
    /\ Len(StrengthCategories(DataOf(State, editing_copy)))
          > Len(StrengthCategories(DataOf(State, current_material)))

\* ---- a save that writes the file reloads the catalog ----

\* what a directory holds for the catalog: one record per .json file that parses
ParsedFiles(st, directory) ==
    {[filepath |-> p, filename |-> p[2], data |-> st.disk[p]] :
        p \in {q \in DOMAIN st.disk :
                  q[1] = directory /\ IsJsonName(q[2]) /\ st.disk[q] # Malformed}}

\* the materials list holds one object per parsed file of work_dir and nothing else
CatalogIsDisk(st) ==
    /\ {CatalogImage(st)[i] : i \in 1..Len(st.materials)} = ParsedFiles(st, st.work_dir)
    /\ Len(st.materials) = Cardinality(ParsedFiles(st, st.work_dir))

\* the states the save handlers leave, before the reload they may ask for
SaveEnds ==
    IF buttons_state # "normal" THEN {}
    ELSE {save_material([State EXCEPT !.clock = @ + 1], p, o) :
             p \in SaveAsPaths, o \in WriteOutcomes}
         \cup {save_material_as([State EXCEPT !.clock = @ + 1], p, o) :
                  p \in SaveAsPaths, o \in WriteOutcomes}

\* the states a save handler that wrote the file ends in, with the state it
\* was in when the write returned
Reloads ==
    UNION {{[saved |-> st,
             end |-> open_directory([st EXCEPT !.reload = FALSE], st.work_dir, order, FALSE)] :
               order \in Listings(st, st.work_dir)} :
             st \in {s \in SaveEnds : s.reload}}

\* C11: whenever save or save-as wrote the record file, the handler ends with
\* the catalog holding exactly the records of the .json files of the working
\* directory, and the catalog record of the saved file has the data the
\* editing copy had when it was written.
C11_SaveReloads ==
    \A r \in Reloads :
        /\ CatalogIsDisk(r.end)
        /\ \E i \in 1..Len(r.end.materials) :
              /\ CatalogImage(r.end)[i].filepath = r.saved.heap[r.saved.editing_copy].filepath
              /\ CatalogImage(r.end)[i].data = DataOf(r.saved, r.saved.editing_copy)

\* ---- a write that fails leaves the edit in progress ----

\* a save handler run with a write that fails, next to the same run with a
\* write that goes through (which tells that the handler got as far as the write)
FailedSaves ==
    IF buttons_state # "normal" THEN {}
    ELSE {f \in
            {[end |-> save_material([State EXCEPT !.clock = @ + 1], p, o),
              ok  |-> save_material([State EXCEPT !.clock = @ + 1], p, "ok")] :
                p \in SaveAsPaths, o \in WriteOutcomes \ {"ok"}}
            \cup {[end |-> save_material_as([State EXCEPT !.clock = @ + 1], p, o),
                   ok  |-> save_material_as([State EXCEPT !.clock = @ + 1], p, "ok")] :
                     p \in SaveAsPaths, o \in WriteOutcomes \ {"ok"}} :
            f.ok.reload}

\* C12: when the write of the record file fails in save or save-as, the error
\* is reported and nothing else happens: no reload is asked for and the catalog
\* is the one from before, the editing copy is the same object and holds the
\* data the forms gave it (what the write would have written), the forms show
\* what they showed, tabs and buttons stay enabled, and a save tried again
\* with a write that goes through writes that data and reloads.
C12_FailedWriteKeepsEdit ==
    \A f \in FailedSaves :
        /\ f.end.message = "error" /\ ~f.end.exc /\ ~f.end.reload
        /\ f.end.materials = materials
        /\ CatalogImage(f.end) = CatalogImage(State)
        /\ f.end.editing_copy = editing_copy /\ editing_copy # 0
        /\ DataOf(f.end, editing_copy) = DataOf(f.ok, editing_copy)
        /\ f.end.general_tab = f.ok.general_tab /\ f.end.general_tab = general_tab
        /\ f.end.phys_tab = phys_tab
        /\ f.end.mech_tab = f.ok.mech_tab /\ f.end.chem_tab = f.ok.chem_tab
        /\ f.end.mech_tab.category_name_entry = mech_tab.category_name_entry
        /\ f.end.mech_tab.prop_widgets = mech_tab.prop_widgets
        /\ f.end.mech_tab.hardness_tree = mech_tab.hardness_tree
        /\ f.end.chem_tab.source_entry = chem_tab.source_entry
        /\ f.end.chem_tab.elements_tree = chem_tab.elements_tree
        /\ f.end.tabs_state = "normal" /\ f.end.buttons_state = "normal"
        /\ f.end.heap[editing_copy].filepath # NoPath
        /\ LET again == save_material([f.end EXCEPT !.clock = @ + 1], NoPath, "ok")
           IN  /\ again.reload
               /\ again.disk[again.heap[editing_copy].filepath] = DataOf(again, editing_copy)

\* a write has failed half way (the file is left truncated), the error was
\* reported and the record is still being edited
C12_Witness ==
    /\ message = "error"
    /\ editing_copy # 0
    /\ tabs_state = "normal" /\ buttons_state = "normal"
    /\ heap[editing_copy].filepath \in DOMAIN disk
    /\ disk[heap[editing_copy].filepath] = Malformed
    /\ materials # <<>>

----------------------------------------------------------------------------
(***************************************************************************)
(* Chemical composition comparison (ChemComparisonTab, lines 1413-1732).   *)
(* The tab's state is the record cs:                                       *)
(*   materials, all_composition_data, filter_entries, sorted_elements,     *)
(*   results_grid.                                                         *)
(* A comp_data dict is a record; has_marks tells whether its keys is_match,*)
(* score and cell_colors exist (_apply_filters_and_resort sets them).      *)
(* elements_map maps an element symbol to the element dict of the record.  *)
(***************************************************************************)

\* a <= b on floats
float_le(a, b) ==
    CASE a.k = "nan" \/ b.k = "nan" -> FALSE
      [] a.k = "-inf" \/ b.k = "inf" -> TRUE
      [] a.k = "inf" \/ b.k = "-inf" -> FALSE
      [] OTHER -> a.n <= b.n

\* float(x) for a JSON value
float(x) ==
    CASE x.k = "str" -> ParseFloat(x.s)
      [] x.k = "num" -> x
      [] OTHER -> TypeError

\* targets (lines 1649-1656): an element with a non-blank entry maps to the
\* number typed, or to None when float() rejects the text
targets_of(entries) ==
    [elem \in {e \in DOMAIN entries : Strip(entries[e]) # ""} |->
        IF ParseFloat(Strip(entries[elem])) = ValueError THEN Null
        ELSE ParseFloat(Strip(entries[elem]))]

\* a bound replaced by its tolerance when float() accepts it (lines 1670-1674, 1676-1680)
with_tolerance(bound, tol) ==
    IF tol \notin {Null, Str("")} /\ float(tol) \notin {ValueError, TypeError}
    THEN float(tol) ELSE bound

\* lower_bound (lines 1669-1674)
lower_bound(elem_info) ==
    with_tolerance(IF Get(elem_info, "min_value", Null) = Null THEN NegInf
                   ELSE Get(elem_info, "min_value", Null),
                   Get(elem_info, "min_value_tolerance", Null))

\* upper_bound (lines 1675-1680)
upper_bound(elem_info) ==
    with_tolerance(IF Get(elem_info, "max_value", Null) = Null THEN Inf
                   ELSE Get(elem_info, "max_value", Null),
                   Get(elem_info, "max_value_tolerance", Null))

\* comp_data["elements_map"].get(elem)
elem_info_of(comp_data, elem) ==
    IF elem \in DOMAIN comp_data.elements_map THEN comp_data.elements_map[elem] ELSE Null

\* one pass of the loop over targets with the running total counted on top of what is given
score_step_MutAccumulate(acc, comp_data, elem, target_val) ==
    IF target_val = Null THEN acc
    ELSE IF ~Truthy(elem_info_of(comp_data, elem))
         THEN [acc EXCEPT !.is_fully_matching = FALSE,
                          !.cell_colors = (elem :> "light coral") @@ @]
    ELSE IF /\ float_le(lower_bound(elem_info_of(comp_data, elem)), target_val)
            /\ float_le(target_val, upper_bound(elem_info_of(comp_data, elem)))
         THEN [acc EXCEPT !.score = @ + 1 + (IF comp_data.has_marks THEN comp_data.score + 1 ELSE 0),
                          !.cell_colors = (elem :> "pale green") @@ @]
         ELSE [acc EXCEPT !.is_fully_matching = FALSE,
                          !.cell_colors = (elem :> "light coral") @@ @]

\* one pass of the loop over targets with the upper bound excluded
score_step_MutExclusive(acc, comp_data, elem, target_val) ==
    IF target_val = Null THEN acc
    ELSE IF ~Truthy(elem_info_of(comp_data, elem))
         THEN [acc EXCEPT !.is_fully_matching = FALSE,
                          !.cell_colors = (elem :> "light coral") @@ @]
    ELSE IF /\ float_le(lower_bound(elem_info_of(comp_data, elem)), target_val)
            /\ float_le(target_val, upper_bound(elem_info_of(comp_data, elem)))
            /\ target_val # upper_bound(elem_info_of(comp_data, elem))
         THEN [acc EXCEPT !.score = @ + 1,
                          !.cell_colors = (elem :> "pale green") @@ @]
         ELSE [acc EXCEPT !.is_fully_matching = FALSE,
                          !.cell_colors = (elem :> "light coral") @@ @]

\* one pass of the loop over targets with an element the source lacks passed over
score_step_MutSkipAbsent(acc, comp_data, elem, target_val) ==
    IF target_val = Null THEN acc
    ELSE IF ~Truthy(elem_info_of(comp_data, elem))
         THEN acc
    ELSE IF /\ float_le(lower_bound(elem_info_of(comp_data, elem)), target_val)
            /\ float_le(target_val, upper_bound(elem_info_of(comp_data, elem)))
         THEN [acc EXCEPT !.score = @ + 1,
                          !.cell_colors = (elem :> "pale green") @@ @]
         ELSE [acc EXCEPT !.is_fully_matching = FALSE,
                          !.cell_colors = (elem :> "light coral") @@ @]

\* one pass of the loop over targets (lines 1660-1686); acc is
\* [score, cell_colors, is_fully_matching]
score_step(acc, comp_data, elem, target_val) ==
    IF target_val = Null THEN acc
    ELSE IF ~Truthy(elem_info_of(comp_data, elem))
         THEN [acc EXCEPT !.is_fully_matching = FALSE,
                          !.cell_colors = (elem :> "light coral") @@ @]
    ELSE IF /\ float_le(lower_bound(elem_info_of(comp_data, elem)), target_val)
            /\ float_le(target_val, upper_bound(elem_info_of(comp_data, elem)))
         THEN [acc EXCEPT !.score = @ + 1,
                          !.cell_colors = (elem :> "pale green") @@ @]
         ELSE [acc EXCEPT !.is_fully_matching = FALSE,
                          !.cell_colors = (elem :> "light coral") @@ @]

RECURSIVE score_loop(_, _, _, _)
\* the loop over targets.items(), whose first i keys are elems[1..i] (line 1659-1660)
score_loop(comp_data, targets, elems, i) ==
    IF i = 0 THEN [score |-> 0, cell_colors |-> <<>>, is_fully_matching |-> TRUE]
    ELSE score_step(score_loop(comp_data, targets, elems, i - 1),
                    comp_data, elems[i], targets[elems[i]])

\* lines 1687-1688
marked(comp_data, acc) ==
    [comp_data EXCEPT !.has_marks = TRUE,
                      !.is_match = acc.is_fully_matching,
                      !.score = IF acc.is_fully_matching THEN acc.score ELSE -1,
                      !.cell_colors = acc.cell_colors]

\* the keys of a dict built by inserting the elements of order one by one
keys_in_order(d, order) == SelectSeq(order, LAMBDA e : e \in DOMAIN d)

\* the loop over all_composition_data (lines 1658-1689)
mark_all(cs, targets) ==
    [cs EXCEPT !.all_composition_data =
        [i \in 1..Len(@) |->
            marked(@[i], score_loop(@[i], targets, keys_in_order(targets, cs.sorted_elements),
                                    Len(keys_in_order(targets, cs.sorted_elements))))]]

\* the sort key (x.get('is_match', False), x.get('score', 0)) of a comp_data: a < b
key_less(a, b) ==
    LET am == a.has_marks /\ a.is_match
        bm == b.has_marks /\ b.is_match
        as == IF a.has_marks THEN a.score ELSE 0
        bs == IF b.has_marks THEN b.score ELSE 0
    IN  (~am /\ bm) \/ (am = bm /\ as < bs)

RECURSIVE insert_by_key(_, _, _)
\* place index x after every index whose key is not smaller
insert_by_key(data, sorted, x) ==
    IF sorted = <<>> THEN <<x>>
    ELSE IF key_less(data[Head(sorted)], data[x]) THEN <<x>> \o sorted
    ELSE <<Head(sorted)>> \o insert_by_key(data, Tail(sorted), x)

\* the rows left in the order of all_composition_data
sorted_by_key_MutUnsorted(data, i) == [j \in 1..i |-> j]

RECURSIVE sorted_by_key(_, _)
\* processed_data.sort(key=..., reverse=True) (line 1690), as the indexes of
\* data[1..i] in sorted order; the sort is stable
sorted_by_key(data, i) ==
    IF i = 0 THEN <<>>
    ELSE insert_by_key(data, sorted_by_key(data, i - 1), i)

\* _format_chem_value(elem_data): the parts of the formatted text
_format_chem_value(elem_data) ==
    IF ~Truthy(elem_data) THEN <<Str("-")>>
    ELSE LET min_0 == Get(elem_data, "min_value", Null)
             max_0 == Get(elem_data, "max_value", Null)
             min_tol == Get(elem_data, "min_value_tolerance", Null)
             max_tol == Get(elem_data, "max_value_tolerance", Null)
             min_v == IF min_0 = Num(0) THEN Null ELSE min_0
             max_v == IF max_0 = Num(0) THEN Null ELSE max_0
             has_min_tol == min_tol \notin {Null, Str("")}
             has_max_tol == max_tol \notin {Null, Str("")}
         IN  IF min_v # Null /\ max_v # Null
             THEN (IF has_min_tol THEN <<Str("("), min_tol, Str(") ")>> ELSE <<>>)
                  \o <<min_v, Str(" - "), max_v>>
                  \o (IF has_max_tol THEN <<Str(" ("), max_tol, Str(")")>> ELSE <<>>)
             ELSE IF max_v # Null
             THEN <<Str("<= "), max_v>>
                  \o (IF has_max_tol THEN <<Str(" ("), max_tol, Str(")")>> ELSE <<>>)
             ELSE IF min_v # Null
             THEN <<Str(">= "), min_v>>
                  \o (IF has_min_tol THEN <<Str(" ("), min_tol, Str(")")>> ELSE <<>>)
             ELSE <<Str("-")>>

\* the row of one comp_data (lines 1703-1732)
grid_row(cs, comp_data) ==
    LET row_bg_color == IF ~comp_data.has_marks \/ comp_data.is_match THEN "honeydew" ELSE "misty rose"
    IN  [material_name |-> comp_data.material_name,
         source |-> comp_data.source,
         base_element |-> comp_data.base_element,
         background |-> row_bg_color,
         cells |-> [c \in 1..Len(cs.sorted_elements) |->
             [text |-> _format_chem_value(elem_info_of(comp_data, cs.sorted_elements[c])),
              background |->
                 IF comp_data.has_marks
                    /\ cs.sorted_elements[c] \in DOMAIN comp_data.cell_colors
                 THEN comp_data.cell_colors[cs.sorted_elements[c]]
                 ELSE row_bg_color]]]

\* _populate_results_grid(data_to_show); data_to_show holds indexes of all_composition_data
_populate_results_grid(cs, data_to_show) ==
    [cs EXCEPT !.results_grid =
        [r \in 1..Len(data_to_show) |-> grid_row(cs, cs.all_composition_data[data_to_show[r]])]]

\* lines 1690-1691
resort(cs) ==
    _populate_results_grid(cs, sorted_by_key(cs.all_composition_data,
                                              Len(cs.all_composition_data)))

\* ChemComparisonTab._apply_filters_and_resort
_apply_filters_and_resort(cs) == resort(mark_all(cs, targets_of(cs.filter_entries)))

\* ChemComparisonTab._reset_element_filters
_reset_element_filters(cs) ==
    _apply_filters_and_resort(
        [cs EXCEPT !.filter_entries = [e \in DOMAIN @ |-> ""]])

\* the comp_data dicts of one material (lines 1581-1589)
RECURSIVE composition_rows(_, _, _)
composition_rows(data, comps, i) ==
    IF i > Len(comps) THEN <<>>
    ELSE <<[material_name |-> get_display_name(data),
            source |-> Get(comps[i], "composition_source", Str("")).s
                       \o (IF Truthy(Get(comps[i], "composition_subsource", Null))
                           THEN " (" \o Get(comps[i], "composition_subsource", Null).s \o ")"
                           ELSE ""),
            base_element |-> Get(comps[i], "base_element", Str("-")),
            elements_map |-> item_map(Get(comps[i], "other_elements", EmptyList).l, "element"),
            has_marks |-> FALSE, is_match |-> FALSE, score |-> 0, cell_colors |-> <<>>]>>
         \o composition_rows(data, comps, i + 1)

\* mat.data.get("chemical_properties", {}).get("composition", [])
composition_of(data) ==
    Get(Get(data, "chemical_properties", EmptyDict), "composition", EmptyList)

RECURSIVE selected_rows(_, _, _)
\* the loop over selected_mats (lines 1575, 1580-1590)
selected_rows(materials_, selected_names, i) ==
    IF i > Len(materials_) THEN <<>>
    ELSE (IF get_display_name(materials_[i]) \in selected_names
          THEN composition_rows(materials_[i], composition_of(materials_[i]).l, 1)
          ELSE <<>>)
         \o selected_rows(materials_, selected_names, i + 1)

\* all_elements (line 1590)
all_elements_of(rows) == UNION {DOMAIN rows[i].elements_map : i \in 1..Len(rows)}

\* lines 1592-1616: the filter entries are built anew, keeping the texts typed
build_filters(cs, saved_filter_values) ==
    IF all_elements_of(cs.all_composition_data) = {} THEN cs
    ELSE _apply_filters_and_resort(
            [cs EXCEPT !.sorted_elements = sorted_strings(all_elements_of(cs.all_composition_data)),
                       !.filter_entries =
                           [e \in all_elements_of(cs.all_composition_data) |->
                               IF e \in DOMAIN saved_filter_values
                               THEN saved_filter_values[e] ELSE ""]])

\* ChemComparisonTab._setup_comparison_view; selected_names is what the listbox has selected
_setup_comparison_view(cs, selected_names) ==
    build_filters(
        [cs EXCEPT !.results_grid = <<>>, !.filter_entries = <<>>,
                   !.all_composition_data = selected_rows(cs.materials, selected_names, 1)],
        [e \in {x \in DOMAIN cs.filter_entries : cs.filter_entries[x] # ""} |->
            cs.filter_entries[e]])

\* the names _update_material_listbox lists with area "all" and no search text (lines 1536-1550)
listbox_names(materials_) ==
    {get_display_name(materials_[i]) :
        i \in {j \in 1..Len(materials_) : Truthy(composition_of(materials_[j]))}}

\* ---- the records compared ----

ChemRecord(name, comps) ==
    Dict([metadata |-> Dict([name_material_standard |-> Str(name)]),
          chemical_properties |-> Dict([composition |-> List(comps)])])

\* Cr 10..14 and Ni up to 2; Cr 12..20 with the lower bound overridden to 10 and a
\* tolerance that is a remark, Ni absent
CompSteelA ==
    <<SourceOf("GOST", <<ElementOf("Cr", 10, 14),
                         DelKey(ElementOf("Ni", 0, 2), "min_value")>>),
      SourceOf("TU", <<UpdKey(UpdKey(ElementOf("Cr", 12, 20), "min_value_tolerance", Str("10")),
                              "max_value_tolerance", Str("note"))>>)>>

\* Cr from 14 with the upper bound given by the tolerance only, Ni 1..2, Fe unbounded
CompSteelB(max_tol) ==
    <<SourceOf("GOST", <<UpdKey(UpdKey(ElementOf("Cr", 14, 0), "max_value", Null),
                                "max_value_tolerance", max_tol),
                         ElementOf("Ni", 1, 2),
                         Dict([element |-> Str("Fe")])>>)>>

ChemCatalogs ==
    {<<ChemRecord("Steel-A", CompSteelA), ChemRecord("Steel-B", CompSteelB(t)),
       ChemRecord("KP1", <<>>)>> : t \in {Str("15"), Str(""), Null}}

TargetTexts == {"", " ", "note", "2", "12", "15", "inf", "nan"}

MaxKeys == 4

\* ---- the tab as a state machine ----

ChemState ==
    [materials |-> cMaterials, all_composition_data |-> all_composition_data,
     filter_entries |-> filter_entries, sorted_elements |-> sorted_elements,
     results_grid |-> results_grid]

ChemBecomes(cs) ==
    /\ cCount < MaxKeys
    /\ cMaterials' = cs.materials
    /\ all_composition_data' = cs.all_composition_data
    /\ filter_entries' = cs.filter_entries
    /\ sorted_elements' = cs.sorted_elements
    /\ results_grid' = cs.results_grid
    /\ cCount' = cCount + 1
    /\ UNCHANGED <<ivars, dvars, evars, uvars, rvars>>

InitChem ==
    /\ cMaterials \in ChemCatalogs
    /\ all_composition_data = <<>> /\ filter_entries = <<>> /\ sorted_elements = <<>>
    /\ results_grid = <<>> /\ cCount = 0
    /\ iData = Null /\ iKey = "" /\ iCat = Null /\ iSeries = <<>> /\ iPlace = "absent"
    /\ iTemp = 0 /\ iRes = Null /\ iPc = "idle"
    /\ DiffIdle
    /\ EditorIdle
    /\ UnitsIdle
    /\ RoundTripIdle

\* <<ListboxSelect>>: the user changes the selection of the material list
SelectMaterials ==
    \E selected_names \in SUBSET listbox_names(cMaterials) :
        ChemBecomes(_setup_comparison_view(ChemState, selected_names))

\* <KeyRelease> in a filter entry after the text changed
TypeTarget ==
    \E elem \in DOMAIN filter_entries : \E text \in TargetTexts :
        /\ text # filter_entries[elem]
        /\ ChemBecomes(_apply_filters_and_resort(
               [ChemState EXCEPT !.filter_entries[elem] = text]))

\* <KeyRelease> of a key that leaves the text as it is
KeyRelease ==
    /\ DOMAIN filter_entries # {}
    /\ ChemBecomes(_apply_filters_and_resort(ChemState))

\* the reset button
ResetElementFilters ==
    /\ DOMAIN filter_entries # {}
    /\ ChemBecomes(_reset_element_filters(ChemState))

NextChem == SelectMaterials \/ TypeTarget \/ KeyRelease \/ ResetElementFilters

SpecChem == InitChem /\ [][NextChem]_vars

----------------------------------------------------------------------------
(* Properties of the composition comparison *)

\* the number typed for an element, ValueError when the text is not one
TargetValue(e) == ParseFloat(Strip(filter_entries[e]))
\* the elements with a target
Targeted == {e \in DOMAIN filter_entries : Strip(filter_entries[e]) # ""
                                            /\ TargetValue(e) # ValueError}
\* the comp_data dicts that have been scored
ScoredRows == {i \in 1..Len(all_composition_data) : all_composition_data[i].has_marks}
\* the source has a usable entry for the element
HasEntry(i, e) ==
    /\ e \in DOMAIN all_composition_data[i].elements_map
    /\ all_composition_data[i].elements_map[e] # EmptyDict

\* a tolerance that is text which reads as a number
IsNumericText(v) == v.k = "str" /\ v.s # "" /\ ParseFloat(v.s) # ValueError

EffectiveLower(info) ==
    IF HasKey(info, "min_value_tolerance") /\ IsNumericText(info.d["min_value_tolerance"])
    THEN ParseFloat(info.d["min_value_tolerance"].s)
    ELSE IF HasKey(info, "min_value") /\ info.d["min_value"] # Null
    THEN info.d["min_value"] ELSE NegInf

EffectiveUpper(info) ==
    IF HasKey(info, "max_value_tolerance") /\ IsNumericText(info.d["max_value_tolerance"])
    THEN ParseFloat(info.d["max_value_tolerance"].s)
    ELSE IF HasKey(info, "max_value") /\ info.d["max_value"] # Null
    THEN info.d["max_value"] ELSE Inf

InBounds(i, e) ==
    /\ float_le(EffectiveLower(all_composition_data[i].elements_map[e]), TargetValue(e))
    /\ float_le(TargetValue(e), EffectiveUpper(all_composition_data[i].elements_map[e]))

Greens(i) == {e \in DOMAIN all_composition_data[i].cell_colors :
                 all_composition_data[i].cell_colors[e] = "pale green"}

\* C13: for a targeted element that a composition source has an entry for, the
\* lower bound is the min value (minus infinity when absent) replaced by the min
\* tolerance when that text is a number, the upper bound likewise; the element is
\* a match and counted in the score iff lower <= target <= upper, both ends
\* included, and otherwise it is a mismatch and the source is not fully matching.
\* Cr {min 10, max 14}: target 12 matches, target 15 does not.
C13_BoundsDecide ==
    \A i \in ScoredRows :
        /\ \A e \in {x \in Targeted : HasEntry(i, x)} :
              /\ e \in DOMAIN all_composition_data[i].cell_colors
              /\ all_composition_data[i].cell_colors[e] =
                     IF InBounds(i, e) THEN "pale green" ELSE "light coral"
              /\ ~InBounds(i, e) => ~all_composition_data[i].is_match
              /\ all_composition_data[i].elements_map[e] = ElementOf("Cr", 10, 14) =>
                    /\ TargetValue(e) = Num(12) => e \in Greens(i)
                    /\ TargetValue(e) = Num(15) =>
                           e \notin Greens(i) /\ ~all_composition_data[i].is_match
        /\ all_composition_data[i].is_match =>
              all_composition_data[i].score = Cardinality(Greens(i))
        /\ Greens(i) \subseteq {x \in Targeted : HasEntry(i, x) /\ InBounds(i, x)}

\* Cr 15 is typed: the source with Cr 10..14 fails, the source whose upper bound
\* is the tolerance 15 matches at the bound, the source with a remark as
\* tolerance matches by its max value
C13_Witness ==
    /\ "Cr" \in Targeted /\ TargetValue("Cr") = Num(15)
    /\ \E i \in ScoredRows :
          /\ all_composition_data[i].elements_map["Cr"] = ElementOf("Cr", 10, 14)
          /\ all_composition_data[i].cell_colors["Cr"] = "light coral"
    /\ \E i \in ScoredRows :
          /\ Get(all_composition_data[i].elements_map["Cr"], "max_value_tolerance", Null) = Str("15")
          /\ all_composition_data[i].is_match /\ all_composition_data[i].score >= 1
    /\ \E i \in ScoredRows :
          /\ Get(all_composition_data[i].elements_map["Cr"], "max_value_tolerance", Null) = Str("note")
          /\ all_composition_data[i].cell_colors["Cr"] = "pale green"

\* C14: a targeted element that a source has no entry for is a mismatch and the
\* source is not fully matching; an element whose target is blank or is not a
\* number changes no classification and no score.
C14_AbsentIsMismatch ==
    /\ \A i \in ScoredRows : \A e \in {x \in Targeted : ~HasEntry(i, x)} :
          /\ e \in DOMAIN all_composition_data[i].cell_colors
          /\ all_composition_data[i].cell_colors[e] = "light coral"
          /\ ~all_composition_data[i].is_match
          /\ all_composition_data[i].score = -1
    /\ \A i \in ScoredRows :
          DOMAIN all_composition_data[i].cell_colors = Targeted
    /\ ScoredRows # {} =>
          \A e \in DOMAIN filter_entries \ Targeted : \A text \in {"", " ", "note"} :
              _apply_filters_and_resort([ChemState EXCEPT !.filter_entries[e] = text])
                      .all_composition_data = all_composition_data

\* Ni 2 is typed and Cr holds a remark: the source without Ni fails on Ni alone
C14_Witness ==
    /\ Targeted = {"Ni"} /\ filter_entries["Cr"] = "note"
    /\ \E i \in ScoredRows :
          /\ "Ni" \notin DOMAIN all_composition_data[i].elements_map
          /\ all_composition_data[i].cell_colors = ("Ni" :> "light coral")
          /\ ~all_composition_data[i].is_match
    /\ \E i \in ScoredRows : all_composition_data[i].is_match

\* the sources in the order the grid shows them
Ranked ==
    [r \in 1..Len(all_composition_data) |->
        all_composition_data[sorted_by_key(all_composition_data, Len(all_composition_data))[r]]]

\* C15: in the ranked output every fully matching source precedes every source
\* that is not, whatever the number of elements matched; within a group a higher
\* score comes first; a source that is not fully matching has score -1, below
\* every score of a fully matching source.
C15_FullMatchesFirst ==
    ScoredRows # {} =>
        /\ ScoredRows = 1..Len(all_composition_data)
        /\ Len(results_grid) = Len(all_composition_data)
        /\ \A r \in 1..Len(results_grid) :
              /\ results_grid[r].material_name = Ranked[r].material_name
              /\ results_grid[r].source = Ranked[r].source
              /\ results_grid[r].background =
                     IF Ranked[r].is_match THEN "honeydew" ELSE "misty rose"
              /\ Ranked[r].score = IF Ranked[r].is_match THEN Cardinality(Targeted) ELSE -1
        /\ \A r1, r2 \in 1..Len(results_grid) :
              r1 < r2 =>
                  /\ Ranked[r2].is_match => Ranked[r1].is_match
                  /\ Ranked[r1].is_match = Ranked[r2].is_match =>
                         Ranked[r1].score >= Ranked[r2].score
        /\ {[material_name |-> results_grid[r].material_name, source |-> results_grid[r].source] :
                r \in 1..Len(results_grid)}
           = {[material_name |-> all_composition_data[i].material_name,
               source |-> all_composition_data[i].source] : i \in ScoredRows}

\* two elements are targeted; a source that matches both is shown above a
\* source that matches one of them and stands before it in all_composition_data
C15_Witness ==
    /\ Cardinality(Targeted) = 2
    /\ Len(results_grid) = 3
    /\ ~all_composition_data[1].is_match
    /\ Cardinality(Greens(1)) = 1
    /\ all_composition_data[3].is_match /\ all_composition_data[3].score = 2
    /\ results_grid[1].material_name = all_composition_data[3].material_name
    /\ results_grid[1].background = "honeydew"
    /\ results_grid[3].background = "misty rose"

\* C16: applying the filter again with the same targets gives the same
\* classification, score, full-match flag and order, and no application of the
\* filter, whatever is typed, changes the element data of a source or a record
\* of the catalog.
C16_ScoreIsIdempotent ==
    DOMAIN filter_entries # {} =>
        /\ _apply_filters_and_resort(ChemState) = ChemState
        /\ \A e \in DOMAIN filter_entries : \A text \in TargetTexts :
              LET once == _apply_filters_and_resort([ChemState EXCEPT !.filter_entries[e] = text])
              IN  /\ _apply_filters_and_resort(once) = once
                  /\ once.materials = cMaterials
                  /\ Len(once.all_composition_data) = Len(all_composition_data)
                  /\ \A i \in 1..Len(all_composition_data) :
                        once.all_composition_data[i].elements_map
                            = all_composition_data[i].elements_map
        /\ \A i \in 1..Len(all_composition_data) :
              \A e \in DOMAIN all_composition_data[i].elements_map :
                  \E m \in 1..Len(cMaterials) :
                     \E c \in 1..Len(composition_of(cMaterials[m]).l) :
                        \E k \in 1..Len(composition_of(cMaterials[m]).l[c].d["other_elements"].l) :
                           composition_of(cMaterials[m]).l[c].d["other_elements"].l[k]
                               = all_composition_data[i].elements_map[e]

\* the filter has been applied several times to sources of which some match
C16_Witness ==
    /\ cCount >= 3
    /\ Targeted # {}
    /\ \E i \in ScoredRows : all_composition_data[i].is_match /\ all_composition_data[i].score >= 1
    /\ \E i \in ScoredRows : ~all_composition_data[i].is_match

----------------------------------------------------------------------------
(* Properties of the change log *)

\* the editing copy as collect_data leaves it when a save handler starts
Collected == EditorFrame_collect_data([State EXCEPT !.clock = @ + 1])

\* a record with an original is being edited and the forms hold nothing that
\* differs from the original
NothingToLog ==
    /\ buttons_state = "normal" /\ editing_copy # 0 /\ current_material # 0
    /\ ~Collected.exc
    /\ find_changes(DataOf(Collected, current_material), DataOf(Collected, editing_copy)) = <<>>

\* C17: a save (or save-as) of an existing record whose difference to the
\* original is empty leaves the change log as it was: no separator, time stamp
\* or header is written.
C17_EmptyDiffNoLog ==
    NothingToLog =>
        \A p \in SaveAsPaths : \A o \in WriteOutcomes : \A l \in LogOutcomes :
            /\ save_material([State EXCEPT !.clock = @ + 1, !.log_outcome = l], p, o).ledger
                   = ledger
            /\ save_material_as([State EXCEPT !.clock = @ + 1, !.log_outcome = l], p, o).ledger
                   = ledger

\* a record was saved with changes that were logged, it is loaded again and
\* saved as it is: the file is written and the log keeps its length
C17_Witness ==
    /\ NothingToLog
    /\ ledger # <<>>
    /\ save_material([State EXCEPT !.clock = @ + 1], NoPath, "ok").reload
    /\ save_material([State EXCEPT !.clock = @ + 1], NoPath, "ok").disk # disk

\* a save handler run with a log file that cannot be opened, next to the same
\* run with a log file that can
LogDeniedSaves ==
    IF buttons_state # "normal" THEN {}
    ELSE {[logged |-> save_material([State EXCEPT !.clock = @ + 1], p, o),
           denied |-> save_material([State EXCEPT !.clock = @ + 1, !.log_outcome = "denied"], p, o)] :
             p \in DialogAnswers(heap[editing_copy].filepath = NoPath), o \in WriteOutcomes}
         \cup {[logged |-> save_material_as([State EXCEPT !.clock = @ + 1], p, o),
                denied |-> save_material_as([State EXCEPT !.clock = @ + 1, !.log_outcome = "denied"], p, o)] :
                  p \in SaveAsPaths, o \in WriteOutcomes}

\* C18: a failure to write the change log stays inside log_changes: the save
\* handler goes on as it does when the log is written, so the record file is
\* written and the reload asked for whether or not the log took the entry.
C18_LogFailureStaysInside ==
    \A s \in LogDeniedSaves :
        /\ ~s.denied.exc
        /\ s.denied.ledger = ledger
        /\ [s.denied EXCEPT !.ledger = <<>>, !.log_outcome = "ok"]
               = [s.logged EXCEPT !.ledger = <<>>]
        /\ s.logged.reload =>
              /\ s.denied.reload
              /\ s.denied.message = "info"
              /\ s.denied.disk[s.denied.heap[editing_copy].filepath]
                     = DataOf(s.denied, editing_copy)

\* there is something to log, the log file cannot be opened, and the record
\* file is written all the same
C18_Witness ==
    \E s \in LogDeniedSaves :
        /\ s.logged.ledger # ledger
        /\ s.denied.ledger = ledger
        /\ s.denied.reload
        /\ s.denied.disk # disk

----------------------------------------------------------------------------
(* Properties of the catalog load *)

\* the .json files of a directory that hold a record: they can be read and
\* parsed, and what they hold is a JSON object
UsableFiles(st, directory) ==
    {f \in ParsedFiles(st, directory) : IsDict(f.data)}

\* the directory loads the user can ask for in this state
Loads ==
    UNION {{[directory |-> d, end |-> open_directory(State, d, order, TRUE)] :
               order \in Listings(State, d)} : d \in Directories}

\* C19: a load of a directory skips each .json file that cannot be read or does
\* not give a usable record, and every other .json file's record is in the
\* catalog afterwards: the load as a whole does not fail.
C19_LoadSkipsBadFiles ==
    \A l \in Loads :
        /\ l.end.message = "info"
        /\ l.end.work_dir = l.directory
        /\ {CatalogImage(l.end)[i] : i \in 1..Len(l.end.materials)}
               = UsableFiles(l.end, l.directory)
        /\ l.end.mat_combo.values
               = [i \in 1..Len(l.end.materials) |-> DisplayName(l.end, l.end.materials[i])]

----------------------------------------------------------------------------
(* SingleCalculationTab: calculation with unit conversion *)

\* UNIT_CONVERSION_GROUPS: a factor is <<numerator, denominator>> of the
\* decimal written in the source (10.19716, 0.0980665, 1.0)
UNIT_CONVERSION_GROUPS ==
    [pressure |->
        [units |-> <<"MPa", "kgf/cm2">>,
         factors |->
             ("MPa" :> (("MPa" :> <<1, 1>>) @@ ("kgf/cm2" :> <<1019716, 100000>>)))
          @@ ("kgf/cm2" :> (("kgf/cm2" :> <<1, 1>>) @@ ("MPa" :> <<980665, 10000000>>)))]]

ALL_PROPERTIES_MAP ==
    [prop_key \in PHYSICAL_KEYS \cup MECHANICAL_KEYS |->
        IF prop_key \in PHYSICAL_KEYS THEN PHYSICAL_PROPERTIES_MAP[prop_key]
        ELSE MECHANICAL_PROPERTIES_MAP[prop_key]]

\* for group in UNIT_CONVERSION_GROUPS.values(): if unit in group["units"]: ... break
\* <<the group>>, or <<>> when no group holds the unit
group_with(unit) ==
    LET holding == {g \in DOMAIN UNIT_CONVERSION_GROUPS :
                      \E i \in DOMAIN UNIT_CONVERSION_GROUPS[g].units :
                          UNIT_CONVERSION_GROUPS[g].units[i] = unit}
    IN  IF holding = {} THEN <<>>
        ELSE <<UNIT_CONVERSION_GROUPS[CHOOSE g \in holding : TRUE]>>

\* a Python float, in hundredths (every value met here has two decimals at most)
Float(h) == [k |-> "float", h |-> h]
\* str(x) of a float: the shortest repr, "2.0", not the two-decimal text "2.00"
Repr(h) == [k |-> "repr", h |-> h]

\* float(base_value) of what get_property_at_temp returned
numeric_value(base_value) ==
    CASE base_value.k = "num" -> Float(100 * base_value.n)
      [] base_value.k = "fixed2" -> Float(base_value.h)
      [] base_value = NoData -> ValueError
      [] base_value.k = "str" -> (IF ParseFloat(base_value.s).k = "num"
                                  THEN Float(100 * ParseFloat(base_value.s).n)
                                  ELSE ValueError)
      [] OTHER -> TypeError

\* try: base_values[k] = float(base_value) except (ValueError, TypeError): base_values[k] = base_value
held_value(base_value) ==
    IF numeric_value(base_value) \in {ValueError, TypeError} THEN base_value
    ELSE numeric_value(base_value)

\* f"{base_value * factor:.2f}" in hundredths. A product that lies exactly
\* between two hundredths has no answer here: the digit printed depends on
\* the binary product.
converted_value(h, factor) ==
    LET q == (h * factor[1]) \div factor[2]
        r == (h * factor[1]) - q * factor[2]
    IN  IF 2 * r < factor[2] THEN q
        ELSE IF 2 * r > factor[2] THEN q + 1
        ELSE CHOOSE tie \in {} : TRUE

\* the text _display_value puts into the result widget
display_value(prop_key, base_value, target_unit) ==
    IF base_value.k = "float"
    THEN LET source_unit == ALL_PROPERTIES_MAP[prop_key].unit
             group == group_with(source_unit)
         IN  IF group = <<>> THEN Repr(base_value.h)
             ELSE IF target_unit \in DOMAIN group[1].factors[source_unit]
             THEN Fixed2(converted_value(base_value.h, group[1].factors[source_unit][target_unit]))
             ELSE Fixed2(base_value.h)
    ELSE IF base_value = Null THEN Str("None")
    ELSE base_value

_display_value(ut, prop_key, base_value) ==
    [ut EXCEPT !.result_widgets[prop_key] =
                   display_value(prop_key, base_value, ut.unit_combos[prop_key].unit)]

\* the unit selector as stored the converted value would
_on_unit_change_MutStoresConverted(ut, prop_key) ==
    IF prop_key \in DOMAIN ut.base_values /\ ut.base_values[prop_key].k = "float"
       /\ group_with(ALL_PROPERTIES_MAP[prop_key].unit) # <<>>
    THEN LET shown == display_value(prop_key, ut.base_values[prop_key],
                                    ut.unit_combos[prop_key].unit)
         IN  [ut EXCEPT !.result_widgets[prop_key] = shown,
                        !.base_values[prop_key] = Float(shown.h),
                        !.message = ""]
    ELSE [ut EXCEPT !.message = ""]

_on_unit_change(ut, prop_key) ==
    IF prop_key \in DOMAIN ut.base_values /\ ut.base_values[prop_key] # Null
    THEN [_display_value(ut, prop_key, ut.base_values[prop_key]) EXCEPT !.message = ""]
    ELSE [ut EXCEPT !.message = ""]

\* the values _on_calculate reads for the entry at temp, as it holds them
looked_up_values(entry, temp) ==
    [prop_key \in DOMAIN ALL_PROPERTIES_MAP |->
        held_value(single_get_property_at_temp(entry.data, entry.category_data, prop_key, temp))]

_on_calculate(ut) ==
    IF ut.material_combo = "" THEN [ut EXCEPT !.message = "warning"]
    ELSE IF ParseFloat(ut.temp_entry) = ValueError THEN [ut EXCEPT !.message = "error"]
    ELSE IF ut.material_combo \notin DOMAIN ut.material_map THEN [ut EXCEPT !.message = ""]
    ELSE [ut EXCEPT
            !.base_values = looked_up_values(ut.material_map[ut.material_combo],
                                             ParseFloat(ut.temp_entry).n),
            !.result_widgets =
                [prop_key \in DOMAIN ALL_PROPERTIES_MAP |->
                    display_value(prop_key,
                                  looked_up_values(ut.material_map[ut.material_combo],
                                                   ParseFloat(ut.temp_entry).n)[prop_key],
                                  ut.unit_combos[prop_key].unit)],
            !.message = ""]

_on_reset(ut) ==
    [ut EXCEPT
        !.base_values = <<>>,
        !.result_widgets = [prop_key \in DOMAIN ALL_PROPERTIES_MAP |-> NoData],
        !.unit_combos = [prop_key \in DOMAIN ALL_PROPERTIES_MAP |->
                            IF ut.unit_combos[prop_key].state # "disabled"
                            THEN [ut.unit_combos[prop_key] EXCEPT
                                     !.unit = ALL_PROPERTIES_MAP[prop_key].unit]
                            ELSE ut.unit_combos[prop_key]],
        !.message = ""]

\* _setup_widgets: one result entry and one unit selector per property
initial_unit_combos ==
    [prop_key \in DOMAIN ALL_PROPERTIES_MAP |->
        IF group_with(ALL_PROPERTIES_MAP[prop_key].unit) # <<>>
        THEN [state |-> "readonly", unit |-> ALL_PROPERTIES_MAP[prop_key].unit]
        ELSE [state |-> "disabled", unit |-> ""]]

\* _filter_materials with the area "all": one entry per strength category, or
\* one for a material without categories; a later entry of the same display
\* name replaces an earlier one
map_entries(catalog) ==
    UNION {LET data == catalog[i]
               base_name == get_display_name(data)
               strength_categories ==
                   Get(Get(data, "mechanical_properties", EmptyDict), "strength_category", EmptyList).l
           IN  IF strength_categories # <<>>
               THEN {[at |-> <<i, j>>,
                      display_name |-> base_name \o " ("
                          \o Get(strength_categories[j], "value_strength_category",
                                 Str("KP " \o ToString(j))).s \o ")",
                      data |-> data, category_data |-> strength_categories[j]] :
                     j \in 1..Len(strength_categories)}
               ELSE {[at |-> <<i, 0>>, display_name |-> base_name,
                      data |-> data, category_data |-> Null]} :
           i \in 1..Len(catalog)}

_filter_materials(catalog) ==
    LET entries == map_entries(catalog)
        later(a, b) == a.at[1] > b.at[1] \/ (a.at[1] = b.at[1] /\ a.at[2] > b.at[2])
        last_of(name) == CHOOSE e \in entries :
                             /\ e.display_name = name
                             /\ \A o \in entries : o.display_name = name /\ o # e => later(e, o)
    IN  [name \in {e.display_name : e \in entries} |->
            [data |-> last_of(name).data, category_data |-> last_of(name).category_data]]

\* ---- the catalog of the runs ----

UnitsSteelA ==
    Dict([material_id |-> Str("id1"),
          metadata |-> StoredMetadata("Steel-A", <<>>, <<>>),
          physical_properties |->
              WithProp(EmptyDict, "density", "present", <<Pair(0, 1), Pair(2, 3)>>),
          mechanical_properties |-> Dict([strength_category |->
              List(<<CategoryA,
                     CategoryB("yield_strength", "present", <<Pair(0, 3), Pair(2, 0)>>)>>)])])

UnitsSteelB ==
    Dict([material_id |-> Str("id2"),
          metadata |-> StoredMetadata("Steel-B", <<>>, <<>>),
          physical_properties |-> WithProp(EmptyDict, "density", "present", <<Pair(0, 3)>>)])

\* material_combo.current(0) on the sorted display names. The catalogs below
\* list their materials and categories in name order, so the first name of
\* the sorted list is the name of the first entry built.
first_name(catalog) ==
    IF map_entries(catalog) = {} THEN ""
    ELSE (CHOOSE e \in map_entries(catalog) : e.at[1] = 1 /\ e.at[2] \in {0, 1}).display_name

UnitsCatalogs == {<<>>, <<UnitsSteelA, UnitsSteelB>>}

\* what the user may type into the temperature entry
TempTexts == {"0", "1", "2", "20", "hot"}

UnitsState ==
    [material_map |-> material_map, material_combo |-> material_combo,
     temp_entry |-> temp_entry, base_values |-> base_values,
     unit_combos |-> unit_combos, result_widgets |-> result_widgets,
     message |-> uMessage]

UnitsBecomes(ut) ==
    /\ material_map' = ut.material_map
    /\ material_combo' = ut.material_combo
    /\ temp_entry' = ut.temp_entry
    /\ base_values' = ut.base_values
    /\ unit_combos' = ut.unit_combos
    /\ result_widgets' = ut.result_widgets
    /\ uMessage' = ut.message
    /\ UNCHANGED <<ivars, dvars, evars, cvars, rvars>>

\* the tab after construction and update_comboboxes: the entry reads "20",
\* the first display name is selected ("" when there is none)
InitUnits ==
    /\ \E catalog \in UnitsCatalogs :
          /\ material_map = _filter_materials(catalog)
          /\ material_combo = first_name(catalog)
    /\ temp_entry = "20"
    /\ base_values = <<>>
    /\ unit_combos = initial_unit_combos
    /\ result_widgets = [prop_key \in DOMAIN ALL_PROPERTIES_MAP |-> NoData]
    /\ uMessage = ""
    /\ iData = Null /\ iKey = "" /\ iCat = Null /\ iSeries = <<>> /\ iPlace = "absent"
    /\ iTemp = 0 /\ iRes = Null /\ iPc = "idle"
    /\ DiffIdle
    /\ EditorIdle
    /\ ChemIdle
    /\ RoundTripIdle

\* the button "calculate"
OnCalculate == UnitsBecomes(_on_calculate(UnitsState))

\* <<ComboboxSelected>> of a unit selector: the selector holds the unit
\* picked when the handler runs
OnUnitChange ==
    \E prop_key \in DOMAIN unit_combos :
        /\ unit_combos[prop_key].state = "readonly"
        /\ \E i \in DOMAIN group_with(ALL_PROPERTIES_MAP[prop_key].unit)[1].units :
              UnitsBecomes(_on_unit_change(
                  [UnitsState EXCEPT !.unit_combos[prop_key].unit =
                      group_with(ALL_PROPERTIES_MAP[prop_key].unit)[1].units[i]],
                  prop_key))

\* the button "reset"
OnReset == UnitsBecomes(_on_reset(UnitsState))

\* the user picks another material of the list; no handler is bound
PickMaterial ==
    \E name \in DOMAIN material_map :
        /\ name # material_combo
        /\ UnitsBecomes([UnitsState EXCEPT !.material_combo = name])

\* the user types another temperature; no handler is bound
TypeTemperature ==
    \E text \in TempTexts :
        /\ text # temp_entry
        /\ UnitsBecomes([UnitsState EXCEPT !.temp_entry = text])

NextUnits == OnCalculate \/ OnUnitChange \/ OnReset \/ PickMaterial \/ TypeTemperature

SpecUnits == InitUnits /\ [][NextUnits]_vars

\* ---- C20 ----

\* base_values is what the lookup gives for some entry of the list at some
\* temperature that can be typed: values in the units of the stored series
HeldNative ==
    \/ base_values = <<>>
    \/ \E name \in DOMAIN material_map : \E text \in TempTexts :
          /\ ParseFloat(text).k = "num"
          /\ base_values = looked_up_values(material_map[name], ParseFloat(text).n)

\* every selection of a unit, by what it leads to
UnitChanges ==
    UNION {{[prop_key |-> prop_key,
             unit |-> group_with(ALL_PROPERTIES_MAP[prop_key].unit)[1].units[i],
             end |-> _on_unit_change(
                        [UnitsState EXCEPT !.unit_combos[prop_key].unit =
                            group_with(ALL_PROPERTIES_MAP[prop_key].unit)[1].units[i]],
                        prop_key)] :
            i \in DOMAIN group_with(ALL_PROPERTIES_MAP[prop_key].unit)[1].units} :
           prop_key \in {p \in DOMAIN unit_combos : unit_combos[p].state = "readonly"}}

\* C20: conversion only changes what is displayed. After any sequence of
\* calculate, unit selection and reset, the values held for re-display are the
\* looked-up values in the property's own unit; selecting a unit leaves them
\* and the catalog records as they are; selecting the property's own unit
\* shows the held value itself (two decimals); calculate and reset leave the
\* catalog records alone as well.
C20_ConversionIsDisplayOnly ==
    /\ HeldNative
    /\ \A c \in UnitChanges :
          /\ c.end.base_values = base_values
          /\ c.end.material_map = material_map
          /\ (/\ c.unit = ALL_PROPERTIES_MAP[c.prop_key].unit
              /\ c.prop_key \in DOMAIN base_values
              /\ base_values[c.prop_key].k = "float")
                 => c.end.result_widgets[c.prop_key] = Fixed2(base_values[c.prop_key].h)
    /\ _on_calculate(UnitsState).material_map = material_map
    /\ _on_reset(UnitsState).material_map = material_map
    /\ \A prop_key \in DOMAIN base_values :
          result_widgets[prop_key]
              = display_value(prop_key, base_values[prop_key], unit_combos[prop_key].unit)

\* 1.50 MPa was calculated and is shown as 15.30 kgf/cm2
C20_Witness ==
    /\ base_values # <<>>
    /\ base_values["yield_strength"] = Float(150)
    /\ unit_combos["yield_strength"].unit = "kgf/cm2"
    /\ result_widgets["yield_strength"] = Fixed2(1530)
    /\ result_widgets["density"] = Repr(200)

----------------------------------------------------------------------------
(* The factor table, there and back *)

\* Natural numbers beyond the machine word: little-endian digits of base 10000
Base == 10000

RECURSIVE Limbs(_)
Limbs(n) == IF n = 0 THEN <<>> ELSE <<n % Base>> \o Limbs(n \div Base)

Digit(a, i) == IF i <= Len(a) THEN a[i] ELSE 0

\* a * d + carry, from digit i on, for d < Base
RECURSIVE times_digit(_, _, _, _)
times_digit(a, d, i, carry) ==
    IF i > Len(a) THEN Limbs(carry)
    ELSE <<(a[i] * d + carry) % Base>> \o times_digit(a, d, i + 1, (a[i] * d + carry) \div Base)

RECURSIVE plus(_, _, _, _)
plus(a, b, i, carry) ==
    IF i > Len(a) /\ i > Len(b) THEN Limbs(carry)
    ELSE <<(Digit(a, i) + Digit(b, i) + carry) % Base>>
         \o plus(a, b, i + 1, (Digit(a, i) + Digit(b, i) + carry) \div Base)

RECURSIVE times(_, _, _)
times(a, b, j) ==
    IF j > Len(b) THEN <<>>
    ELSE plus(times_digit(a, b[j], 1, 0), <<0>> \o times(a, b, j + 1), 1, 0)

\* a <= b, comparing from digit i down
RECURSIVE less_eq(_, _, _)
less_eq(a, b, i) ==
    IF i = 0 THEN TRUE
    ELSE IF Digit(a, i) # Digit(b, i) THEN Digit(a, i) < Digit(b, i)
    ELSE less_eq(a, b, i - 1)

LessEq(a, b) == less_eq(a, b, IF Len(a) > Len(b) THEN Len(a) ELSE Len(b))

\* group["factors"][source_unit][target_unit]
factor_of(source_unit, target_unit) ==
    group_with(source_unit)[1].factors[source_unit][target_unit]

\* value * factor as the exact quotient num / den, the value in hundredths
Exact(h) == [num |-> Limbs(h), den |-> Limbs(1)]
times_factor(value, factor) ==
    [num |-> times(value.num, Limbs(factor[1]), 1),
     den |-> times(value.den, Limbs(factor[2]), 1)]

\* the values taken through the table, in hundredths: 0.01 ... 210000.00
RoundTripValues ==
    {1, 5, 50, 100, 150, 2000, 25000, 45000, 785000, 2000000, 2390000, 2400000,
     20000000, 21000000}

AllUnits ==
    UNION {{UNIT_CONVERSION_GROUPS[g].units[i] : i \in DOMAIN UNIT_CONVERSION_GROUPS[g].units} :
           g \in DOMAIN UNIT_CONVERSION_GROUPS}

InitRoundTrip ==
    /\ rFrom \in AllUnits
    /\ rTo \in {UNIT_CONVERSION_GROUPS[g].units[i] :
                  g \in {n \in DOMAIN UNIT_CONVERSION_GROUPS : group_with(rFrom) = <<UNIT_CONVERSION_GROUPS[n]>>},
                  i \in 1..Len(group_with(rFrom)[1].units)}
    /\ rX \in RoundTripValues
    /\ rThere = <<>> /\ rBack = <<>> /\ rPc = "ready"
    /\ iData = Null /\ iKey = "" /\ iCat = Null /\ iSeries = <<>> /\ iPlace = "absent"
    /\ iTemp = 0 /\ iRes = Null /\ iPc = "idle"
    /\ DiffIdle
    /\ EditorIdle
    /\ ChemIdle
    /\ UnitsIdle

\* converted_value = base_value * factor, from rFrom to rTo
ConvertThere ==
    /\ rPc = "ready"
    /\ rThere' = <<times_factor(Exact(rX), factor_of(rFrom, rTo))>>
    /\ rPc' = "there"
    /\ UNCHANGED <<rFrom, rTo, rX, rBack, ivars, dvars, evars, cvars, uvars>>

\* the same with the factor of the other direction
ConvertBack ==
    /\ rPc = "there"
    /\ rBack' = <<times_factor(rThere[1], factor_of(rTo, rFrom))>>
    /\ rPc' = "back"
    /\ UNCHANGED <<rFrom, rTo, rX, rThere, ivars, dvars, evars, cvars, uvars>>

NextRoundTrip == ConvertThere \/ ConvertBack

SpecRoundTrip == InitRoundTrip /\ [][NextRoundTrip]_vars

\* value, in hundredths, is h when printed with two decimals: it lies within
\* half a hundredth of h
PrintsAs(value, h) ==
    /\ LessEq(times(value.num, Limbs(2), 1), times(value.den, Limbs(2 * h + 1), 1))
    /\ LessEq(times(value.den, Limbs(2 * h - 1), 1), times(value.num, Limbs(2), 1))

\* C21: a value taken from a unit to another unit of its group and back with
\* the factors of the table is the value again, to two decimals; the factor
\* from a unit to itself is 1.
C21_RoundTripReturns ==
    /\ \A unit \in AllUnits : factor_of(unit, unit) = <<1, 1>>
    /\ rPc = "back" => PrintsAs(rBack[1], rX)

\* the same for values below 20000.00
C21_SmallValuesReturn ==
    (rPc = "back" /\ rX <= 2000000) => PrintsAs(rBack[1], rX)

----------------------------------------------------------------------------
(* The ledger block of a change list *)

\* the lines log_changes writes for the changes found
BlockLines == log_lines(dChanges, {}, 1).lines

\* where the line of the i-th change stands in the block (0 for i = 0)
RECURSIVE ChangeLineAt(_, _, _)
ChangeLineAt(lines, i, from) ==
    IF i = 0 THEN 0
    ELSE IF from > Len(lines) THEN Len(lines) + 1
    ELSE IF lines[from].kind = "change"
         THEN (IF i = 1 THEN from ELSE ChangeLineAt(lines, i - 1, from + 1))
    ELSE ChangeLineAt(lines, i, from + 1)

ProperPrefixes(path) == {SubSeq(path, 1, d) : d \in 1..(Len(path) - 1)}

\* the prefixes met for the first time at the i-th change
FirstMetAt(i) ==
    ProperPrefixes(dChanges[i].path)
        \ UNION {ProperPrefixes(dChanges[j].path) : j \in 1..(i - 1)}

\* the lines between the line of change i - 1 and the line of change i
HeadersOf(i) ==
    SubSeq(BlockLines, ChangeLineAt(BlockLines, i - 1, 1) + 1, ChangeLineAt(BlockLines, i, 1) - 1)

\* C22: in the block written for a change list, each change has its line,
\* in list order, at depth = length of its path; right before the line of a
\* change stand the headers of exactly those proper prefixes of its path that
\* no earlier change has, one header each, shortest first, each at depth =
\* length of its prefix and named after the last key of the prefix. So a
\* prefix is announced once, when its first change is written, and every
\* change line follows the headers of all its prefixes.
C22_HeadersOncePerPrefix ==
    Diffed =>
        /\ Len(SelectSeq(BlockLines, LAMBDA l : l.kind = "change")) = Len(dChanges)
        /\ Len(BlockLines) = Len(dChanges)
              + Cardinality(UNION {ProperPrefixes(dChanges[i].path) : i \in 1..Len(dChanges)})
        /\ \A i \in 1..Len(dChanges) :
              LET path == dChanges[i].path
                  line == BlockLines[ChangeLineAt(BlockLines, i, 1)]
                  heads == HeadersOf(i)
              IN  /\ line.change = dChanges[i]
                  /\ line.depth = Len(path)
                  /\ line.leaf = path[Len(path)]
                  /\ Len(heads) = Cardinality(FirstMetAt(i))
                  /\ \A h \in 1..Len(heads) :
                        /\ heads[h].kind = "header"
                        /\ SubSeq(path, 1, heads[h].depth) \in FirstMetAt(i)
                        /\ heads[h].name = path[heads[h].depth]
                        /\ h > 1 => heads[h - 1].depth < heads[h].depth

\* two changes below the same category item and a third elsewhere: the
\* headers of the shared prefixes stand before the first of them only
C22_Witness ==
    /\ Diffed
    /\ \E i \in 1..Len(dChanges) : \E j \in (i + 1)..Len(dChanges) :
          /\ Len(dChanges[i].path) >= 4
          /\ ProperPrefixes(dChanges[i].path) \cap ProperPrefixes(dChanges[j].path) # {}
          /\ FirstMetAt(j) # ProperPrefixes(dChanges[j].path)
          /\ HeadersOf(j) = <<>> \/ Len(HeadersOf(j)) < Len(dChanges[j].path) - 1
    /\ \E i \in 1..Len(dChanges) : \E j \in 1..Len(dChanges) :
          ProperPrefixes(dChanges[i].path) \cap ProperPrefixes(dChanges[j].path) = {}

----------------------------------------------------------------------------
(* Completeness of the diff *)

\* the items of a list without their order: item |-> number of occurrences
Unordered(items) ==
    [k |-> "items",
     b |-> [x \in {items[i] : i \in 1..Len(items)} |->
               Cardinality({i \in 1..Len(items) : items[i] = x})]]

\* a record as the audit sees it: without material_id and
\* property_last_updated at every level, and with the strength categories,
\* the composition sources and the elements of a source without their order
RECURSIVE Audited(_, _)
Audited(v, key) ==
    IF IsDict(v) THEN Dict([x \in DOMAIN v.d \ VOLATILE_KEYS |-> Audited(v.d[x], x)])
    ELSE IF IsList(v)
    THEN (IF key \in {"strength_category", "composition", "other_elements"}
          THEN Unordered([j \in 1..Len(v.l) |-> Audited(v.l[j], "")])
          ELSE List([j \in 1..Len(v.l) |-> Audited(v.l[j], "")]))
    ELSE v

\* C23: an empty diff means that old and new are equal in every field other
\* than material_id and property_last_updated, up to the order of the items
\* of the identity-keyed lists; also when such a list holds two items with
\* the same identity value and when a key holds null on one side and is
\* absent on the other.
C23_EmptyDiffMeansEqual ==
    (Diffed /\ dChanges = <<>>) => Audited(dOld, "") = Audited(dNew, "")

\* a record without the keys that hold null
RECURSIVE WithoutNulls(_)
WithoutNulls(v) ==
    IF IsDict(v)
    THEN Dict([x \in {y \in DOMAIN v.d : v.d[y] # Null} |-> WithoutNulls(v.d[x])])
    ELSE IF IsList(v) THEN List([j \in 1..Len(v.l) |-> WithoutNulls(v.l[j])])
    ELSE v

DistinctNames(r) ==
    /\ \A i, j \in NamedCats(r) : CatName(r, i) = CatName(r, j) => i = j
    /\ \A i, j \in 1..Len(Comps(r)) :
          Comps(r)[i].d["composition_source"] = Comps(r)[j].d["composition_source"] => i = j

\* what does hold: when no keyed list holds an identity value twice, an
\* empty diff means equality once a key holding null counts as absent
C23_EmptyDiffOfPlainRecords ==
    (Diffed /\ dChanges = <<>> /\ DistinctNames(dOld) /\ DistinctNames(dNew))
        => Audited(WithoutNulls(dOld), "") = Audited(WithoutNulls(dNew), "")

----------------------------------------------------------------------------
(* The ledger and the record file *)

\* C24: a block is appended to the ledger only by a save that writes the
\* record file: a run of save or save-as in which the write fails or the
\* file dialog is cancelled (no reload is asked for) leaves the ledger as it
\* was, so a save tried again adds no second block for the same changes.
C24_LedgerOnlyForWrittenSaves ==
    \A end \in SaveEnds : ~end.reload => end.ledger = ledger

----------------------------------------------------------------------------
(* Saving a record as it was loaded *)

\* the editor after the user picked a record of the list; an exception of
\* the handler has been reported by Tk
JustLoaded ==
    {[load_material([State EXCEPT !.mat_combo.text = mat_combo.values[i]]) EXCEPT !.exc = FALSE] :
        i \in 1..Len(mat_combo.values)}

\* C25: a record loaded into the editor and saved with no form field changed
\* writes no ledger block: collect_data leaves the editing copy with an empty
\* diff against the original, whatever the record on disk looks like
\* (application areas in any order, temperature_application with value null,
\* series without property_name).
C25_UntouchedSaveLogsNothing ==
    \A l \in JustLoaded :
        l.current_material # 0 =>
            /\ find_changes(DataOf(l, l.current_material),
                            DataOf(EditorFrame_collect_data(l), l.editing_copy)) = <<>>
            /\ save_material([l EXCEPT !.clock = @ + 1], NoPath, "ok").ledger = ledger

----------------------------------------------------------------------------
(* The ledger block of a new material *)

\* what save-as of a new material hands to the log writer
NewMaterialChanges ==
    <<NEW_MATERIAL_NOTE>>
        \o find_changes(get_empty_structure("u0"),
                        DataOf(EditorFrame_collect_data(State), editing_copy))

\* the lines save-as appends to the ledger
SaveAsBlocks ==
    {SubSeq(end.ledger, Len(ledger) + 1, Len(end.ledger)) :
        end \in {save_material_as([State EXCEPT !.clock = @ + 1], p, o) :
                   p \in SaveAsPaths, o \in WriteOutcomes}}

\* C26: the block written when a new material (no original) is saved with
\* save-as is complete: the log writer meets no error while writing it, it
\* has a change line for every entry of the diff against the empty record,
\* and it ends with the blank line.
C26_NewMaterialBlockComplete ==
    (buttons_state = "normal" /\ editing_copy # 0 /\ current_material = 0) =>
        /\ ~log_lines(NewMaterialChanges, {}, 1).raised
        /\ \A block \in SaveAsBlocks :
              /\ block # <<>>
              /\ block[Len(block)].kind = "blank"
              /\ \A i \in 2..Len(NewMaterialChanges) :
                    \E j \in 1..Len(block) :
                        block[j].kind = "change" /\ block[j].change = NewMaterialChanges[i]

----------------------------------------------------------------------------
(* The original being edited and the catalog *)

\* the original the diff is taken against is an object of the materials list
InCatalog(st) ==
    st.current_material # 0 =>
        \E i \in 1..Len(st.materials) : st.materials[i] = st.current_material

\* the load changed nothing: the catalog and the edit in progress are the old ones
KeepsOld(st) ==
    /\ st.materials = materials /\ CatalogImage(st) = CatalogImage(State)
    /\ st.editing_copy = editing_copy /\ st.current_material = current_material

\* the catalog is the whole directory, in display name order, and nothing is
\* being edited
FullyLoaded(st) ==
    /\ CatalogIsDisk(st)
    /\ ~HasNoGet(st)
    /\ \A i, j \in 1..Len(st.materials) :
          i < j => StrRank(DisplayName(st, st.materials[i]))
                       <= StrRank(DisplayName(st, st.materials[j]))
    /\ st.editing_copy = 0 /\ st.current_material = 0

\* C27: in every state the original being edited, when there is one, is an
\* object of the catalog's materials list, and every directory load, failed or
\* not, leaves either the old catalog with the old edit in progress or a fully
\* loaded catalog in display name order with no editing copy and no original.
C27_BaselineInCatalog ==
    /\ InCatalog(State)
    /\ \A l \in Loads : KeepsOld(l.end) \/ FullyLoaded(l.end)

\* the same for the directories whose .json files all hold a record or do not parse
C27_BaselineInCatalogOfRecords ==
    \A l \in Loads :
        l.directory # "odd" => (InCatalog(l.end) /\ FullyLoaded(l.end))

----------------------------------------------------------------------------
(* Where a save goes after a write that failed *)

\* the property_last_updated of the named properties of a record, by place
StampsOf(data) ==
    LET phys == Get(data, "physical_properties", EmptyDict)
        cats == Get(Get(data, "mechanical_properties", EmptyDict),
                    "strength_category", EmptyList).l
        Stamped(d) == {key \in DOMAIN d.d : IsDict(d.d[key]) /\ HasKey(d.d[key], "property_name")}
    IN  [physical |-> [key \in Stamped(phys) |->
                          Get(phys.d[key], "property_last_updated", Null)],
         mechanical |-> [i \in 1..Len(cats) |->
                          [key \in Stamped(cats[i]) |->
                              Get(cats[i].d[key], "property_last_updated", Null)]]]

\* C28: when the write of the record file fails in save or save-as, the
\* editing copy's filepath and filename, the property_last_updated stamps of
\* its data and the working directory are what they were before the handler
\* ran, and a plain save that follows writes the file it would have written
\* before.
C28_FailedSaveKeepsTarget ==
    \A f \in FailedSaves :
        /\ f.end.heap[editing_copy].filepath = heap[editing_copy].filepath
        /\ f.end.heap[editing_copy].filename = heap[editing_copy].filename
        /\ StampsOf(DataOf(f.end, editing_copy))
               = StampsOf(DataOf(EditorFrame_collect_data(State), editing_copy))
        /\ f.end.work_dir = work_dir
        /\ \A p \in SaveAsPaths :
              save_material([f.end EXCEPT !.clock = @ + 1], p, "ok").heap[editing_copy].filepath
                = save_material([State EXCEPT !.clock = @ + 1], p, "ok").heap[editing_copy].filepath

\* the plain save of a record that has a file: the path, the file name and the
\* working directory are kept when the write fails
C28_FailedPlainSaveKeepsPath ==
    (buttons_state = "normal" /\ editing_copy # 0 /\ heap[editing_copy].filepath # NoPath) =>
        \A o \in WriteOutcomes \ {"ok"} :
            LET end == save_material([State EXCEPT !.clock = @ + 1], NoPath, o)
            IN  /\ end.work_dir = work_dir
                /\ end.heap[editing_copy].filepath = heap[editing_copy].filepath
                /\ end.heap[editing_copy].filename = heap[editing_copy].filename

----------------------------------------------------------------------------
(* Order of the items of an identity-keyed list *)

\* every item carries the identity field and no two items have the same value
DistinctIdents(items, key_name) ==
    /\ \A i \in 1..Len(items) : HasKey(items[i], key_name)
    /\ \A i, j \in 1..Len(items) :
          i # j => items[i].d[key_name] # items[j].d[key_name]

\* the orders the items of a list can be put in
Permuted(items) ==
    {[i \in 1..Len(items) |-> items[f[i]]] :
        f \in {g \in [1..Len(items) -> 1..Len(items)] :
                  \A i, j \in 1..Len(items) : i # j => g[i] # g[j]}}

\* one more item at position pos + 1
InsertedAt(items, pos, item) ==
    SubSeq(items, 1, pos) \o <<item>> \o SubSeq(items, pos + 1, Len(items))

\* the list at path p of record r is keyed, and its order does not count:
\* every reordering has an empty diff, and one new item at any position is one
\* 'added' entry that carries the item
OrderFree(r, p, key_name, new_items) ==
    DistinctIdents(GetIn(r, p).l, key_name) =>
        /\ \A q \in Permuted(GetIn(r, p).l) :
              find_changes(r, SetIn(r, p, List(q))) = <<>>
        /\ \A item \in new_items, pos \in 0..Len(GetIn(r, p).l), q \in Permuted(GetIn(r, p).l) :
              DistinctIdents(Append(q, item), key_name) =>
                  find_changes(r, SetIn(r, p, List(InsertedAt(q, pos, item))))
                    = <<[path |-> Append(p, p[Len(p)] \o "[" \o item.d[key_name].s \o "]"),
                         type |-> "added", new |-> item]>>

\* C29: for the strength-category list and the composition-source list, when
\* every item carries its identity field and the identity values are distinct,
\* the diff does not depend on the order of the items: a record against the
\* same record with the list reordered has an empty diff, and one item
\* inserted at any position gives exactly one 'added' entry.
C29_KeyedListsIgnoreOrder ==
    /\ \A r \in {dOld, dNew} :
          /\ OrderFree(r, CatPath, "value_strength_category",
                       {CategoryOf(name, "TU", Null) : name \in CategoryNames})
          /\ OrderFree(r, CompPath, "composition_source",
                       {SourceOf(name, <<ElementOf("Cr", 10, 14)>>) : name \in SourceNames})
    /\ \A p \in {CatPath, CompPath} :
          (/\ Diffed
           /\ DistinctIdents(GetIn(dOld, p).l, LIST_ITEM_KEYS(p))
           /\ GetIn(dNew, p).l \in Permuted(GetIn(dOld, p).l)
           /\ dNew = SetIn(dOld, p, GetIn(dNew, p))) => dChanges = <<>>

\* two strength categories with different names were swapped (or two
\* composition sources), nothing else was changed, and the diff was taken
C29_Witness ==
    /\ Diffed
    /\ \E p \in {CatPath, CompPath} :
          /\ DistinctIdents(GetIn(dOld, p).l, LIST_ITEM_KEYS(p))
          /\ Len(GetIn(dOld, p).l) = 2
          /\ GetIn(dNew, p).l = <<GetIn(dOld, p).l[2], GetIn(dOld, p).l[1]>>
          /\ dNew = SetIn(dOld, p, GetIn(dNew, p))
    /\ dChanges = <<>>

----------------------------------------------------------------------------
(* The two samples the interpolation is taken between *)

\* what the bracketing scan of the lookup finds in the stored series
Bracket == Scan(sorted_pairs(iSeries), 1, iTemp, <<>>)
BothFound == Bracket.lower # <<>> /\ Bracket.upper # <<>>

\* C30: whenever the scan finds both bracketing samples, the lower one is
\* strictly below the query and the upper one strictly above it, for every
\* series, equal temperatures included; so the divisor t_upper - t_lower is
\* positive and the branch for t_upper = t_lower is never taken: a query that
\* equals no sample temperature never gets a stored value back unformatted.
C30_BracketIsStrict ==
    (LookupDone /\ SeriesFound) =>
        /\ BothFound =>
              /\ Bracket.lower[1] < iTemp /\ iTemp < Bracket.upper[1]
              /\ Bracket.upper[1] - Bracket.lower[1] > 0
        /\ (BothFound /\ ExactIdx = {}) => iRes.k = "fixed2"
        /\ ExactIdx = {} => iRes.k # "num"

\* two samples at the same temperature with different values just below the
\* query, one sample above it, and the interpolation was returned
C30_Witness ==
    /\ iPc \in {"material", "single"} /\ SeriesFound /\ ExactIdx = {} /\ BothFound
    /\ \E i, j \in NearestBelow : i # j /\ PairV(iSeries[i]) # PairV(iSeries[j])
    /\ AboveIdx # {}
    /\ iRes.k = "fixed2"

====
